---- MODULE Spec2Model ----
(***************************************************************************)
(* CommonDecoder (decoding orchestrator) with its tensor-parallel and      *)
(* pipeline-parallel communication.  Each MPI process runs one            *)
(* CommonDecoder; forward() is split at its blocking communication calls. *)
(***************************************************************************)
EXTENDS Integers, Sequences, FiniteSets, TLC

\* ---------------------------------------------------------------- bounds
MaxWorld == 4        \* largest number of MPI processes of a job
MaxStep == 2         \* forward calls (steps 0 .. MaxStep-1) of a job
NumLayers == 3       \* num_layer of the model configuration
HiddenSize == 2      \* head_num * size_per_head of the configuration
MaxBatch == 2        \* largest userSideBS
MaxBeam == 2         \* largest beamSize
MaxPrompt == 2       \* largest prompt length of a job
MaxPositions == 4    \* model_max_length of the configuration
VocabSize == 5       \* vocab_size of the configuration
MaxCalls == 3        \* calls of one session script
MaxSeqLen == 2       \* largest seqLen passed by a session script

VARIABLES
    world_size,       \* MPI_Comm_size(MPI_COMM_WORLD)
    pipeline,         \* Env::getPipeline(), the requested stage count
    attnMlpParallel,  \* template parameter ATTN_MLP_PARALLEL
    job,              \* dims every process of the job passes to forward
    dec,              \* per process: the CommonDecoder's session fields
    fr,               \* per process: the frame of the running forward call
    net,              \* messages sent on MPI_COMM_WORLD and not yet received
    caller,           \* per process: number of forward calls made so far
    hist,             \* per process: seqLen of the calls of the session
    ctor              \* process 0: context, layer parameters and MLP weights

vars == <<world_size, pipeline, attnMlpParallel, job, dec, fr, net, caller, hist, ctor>>

Procs == 0 .. (world_size - 1)

\* ------------------------------------------------------------- topology
\* variant: the rank is divided by the stage count
ColorByStageCount(R) == R \div pipeline

\* world_color = world_rank / (world_size / pp_num)
Color(R) == R \div (world_size \div pipeline)

\* MPI_Comm_split(MPI_COMM_WORLD, color, world_rank): members of R's row
Row(R) == {q \in Procs : Color(q) = Color(R)}

\* MPI_Comm_size(row_comm) = pcomm->size() = messenger.getSize()
RowSize(R) == Cardinality(Row(R))

\* variant: the row is numbered from its highest world rank
RowRankReversed(R) == Cardinality({q \in Row(R) : q > R})

\* MPI_Comm_rank(row_comm) = pcomm->rank() = messenger.getRank()
RowRank(R) == Cardinality({q \in Row(R) : q < R})

pp_size == pipeline
pp_rank(p) == Color(p)
tp_size(p) == RowSize(p)
tp_rank(p) == RowRank(p)

\* ----------------------------------------------------- layer assignment
\* variant: the stage size is rounded up
LayersPerStageCeil == (NumLayers + pp_size - 1) \div pp_size

layers_per_pp_stage == NumLayers \div pp_size

\* variant: the world rank, not the stage, selects the first layer
StartLayerByWorldRank(p) == p * layers_per_pp_stage

start_layer(p) == pp_rank(p) * layers_per_pp_stage

\* -------------------------------------------------------------- values
NoBuf == [by |-> -1, step |-> -1, layers |-> <<>>]
NoAttn == [layer |-> -1, partial |-> FALSE]
NoMsg == [src |-> -1, dst |-> -1, tag |-> -1, step |-> -1, count |-> 0, data |-> NoBuf]
NoRet == <<"none", 0, 0>>
Sentinel == <<"nullptr", 0, 0>>

\* the fields the constructor sets; the buffers are not allocated yet
NewDecoder == [initSeqLen |-> 0, accSeqLen |-> 0, prefixSeqLen |-> 0, prefixSharing |-> FALSE,
               maskSize |-> 0, actCap |-> 0, kvCap |-> 0, kvRows |-> 0, prefixCap |-> 0,
               ctxBatchSize |-> 0, ctxInputSeqLen |-> 0, warned |-> FALSE,
               kvCache |-> [l \in 1 .. NumLayers |-> <<>>]]

\* one entry of the event log of a forward call
Ev(ev, what, layer, count, partial) ==
    [ev |-> ev, what |-> what, layer |-> layer, count |-> count, partial |-> partial]

NoFrame == [pc |-> "idle", step |-> -1, userSideBS |-> 0, beamSize |-> 0, seqLen |-> 0,
            logitsAll |-> FALSE, batchSize |-> 0, pastSeqLen |-> 0, inputSeqLen |-> 0,
            i |-> 0, embBuf |-> NoBuf, attnOut |-> NoAttn, firstIn |-> NoBuf,
            recv |-> NoMsg, log |-> <<>>, ret |-> NoRet, finalOut |-> <<>>,
            ids |-> <<>>, lnIn |-> <<>>, prefix |-> FALSE, heap |-> {}]

\* ------------------------------------------------- forward: entry part
BatchSizeOf(userSideBS, beamSize, step) ==
    IF step = 0 THEN userSideBS ELSE userSideBS * beamSize

\* variant: step 0 starts at position 0 also with a shared prefix
PastSeqLenIgnoresPrefix(d, step) == IF step = 0 THEN 0 ELSE d.accSeqLen

PastSeqLenOf(d, step) ==
    IF step = 0 THEN (IF d.prefixSharing THEN d.prefixSeqLen ELSE 0) ELSE d.accSeqLen

InputSeqLenOf(d, seqLen, step) ==
    IF step = 0 /\ d.prefixSharing THEN seqLen - d.prefixSeqLen ELSE seqLen

\* the caller's ids: rows sequences of seqLen tokens each, row after row; a
\* token is named by its sequence and its position in the sequence
InputIds(rows, seqLen) ==
    [k \in 1 .. (rows * seqLen) |-> <<(k - 1) \div seqLen, (k - 1) % seqLen>>]

\* variant: the copy starts at the beginning of each row
NewIDsFromRowStart(ids, userSideBS, seqLen, pastSeqLen) ==
    LET inputSeqLen == seqLen - pastSeqLen IN
    [k \in 1 .. (userSideBS * inputSeqLen) |->
        ids[seqLen * ((k - 1) \div inputSeqLen) + ((k - 1) % inputSeqLen) + 1]]

\* "memcpy(newIDs + inputSeqLen * bs, ids + seqLen * bs + pastSeqLen, inputSeqLen)"
\* for every bs < userSideBS
NewIDs(ids, userSideBS, seqLen, pastSeqLen) ==
    LET inputSeqLen == seqLen - pastSeqLen IN
    [k \in 1 .. (userSideBS * inputSeqLen) |->
        ids[seqLen * ((k - 1) \div inputSeqLen) + pastSeqLen + ((k - 1) % inputSeqLen) + 1]]

\* the ids embeddingForward is given
IdsOf(d, userSideBS, beamSize, seqLen, step) ==
    LET ids == InputIds(BatchSizeOf(userSideBS, beamSize, step), seqLen) IN
    IF step = 0 /\ d.prefixSharing
    THEN NewIDs(ids, userSideBS, seqLen, d.prefixSeqLen) ELSE ids

\* the temporary arrays of the call that are still allocated when the entry
\* part is done: prefixIDs and newIDs are allocated, prefixIDs is freed
TempAfterEntry(d, step) ==
    IF step = 0 /\ d.prefixSharing THEN {"prefixIDs", "newIDs"} \ {"prefixIDs"} ELSE {}

\* variant: every call overwrites initSeqLen
InitSeqLenAlwaysSet(d, seqLen, step) == seqLen

InitSeqLenAfter(d, seqLen, step) ==
    IF step = 0 THEN seqLen ELSE d.initSeqLen

\* variant: step 0 does not reset the accumulated length
AccSeqLenNoReset(d, seqLen, step) == d.accSeqLen + seqLen

\* variant: a call accumulates its new tokens only
AccSeqLenNewTokensOnly(d, seqLen, step) ==
    (IF step = 0 THEN 0 ELSE d.accSeqLen) + InputSeqLenOf(d, seqLen, step)

AccSeqLenAfter(d, seqLen, step) ==
    (IF step = 0 THEN 0 ELSE d.accSeqLen) + seqLen

\* element count of every activation transfer of the call
ActCount(f) == f.batchSize * f.inputSeqLen * HiddenSize

\* embeddingForward(ids, embBuf, batchSize, inputSeqLen)
Embedding(p, step) == [by |-> p, step |-> step, layers |-> <<>>]

\* position after the optional receive: the layer loop or what follows it
LoopStart == IF layers_per_pp_stage > 0 THEN "attn" ELSE "tail"

EnterPc(p) == IF pp_rank(p) > 0 THEN "recv" ELSE LoopStart

\* the lengths passed since the last step-0 call (history of the session)
\* (skipped: the session began with skipFirstStep, whose length heads lens)
NoHist == [valid |-> FALSE, shared |-> FALSE, lens |-> <<>>, reorders |-> <<>>,
           skipped |-> FALSE]
HistAfter(h, d, seqLen, step) ==
    IF step = 0 THEN [valid |-> TRUE, shared |-> d.prefixSharing, lens |-> <<seqLen>>,
                      reorders |-> <<>>, skipped |-> FALSE]
    ELSE [h EXCEPT !.lens = Append(@, seqLen), !.shared = @ \/ d.prefixSharing]

\* integer division of C, which truncates toward zero
CDiv(a, b) == IF a >= 0 THEN a \div b ELSE -((-a) \div b)

Max(a, b) == IF a >= b THEN a ELSE b

\* DecoderContext::resize(batchSize, inputSeqLen, pastSeqLen)
CtxResize(d, batchSize, inputSeqLen) ==
    [d EXCEPT !.ctxBatchSize = batchSize, !.ctxInputSeqLen = inputSeqLen]

\* hpj::Matrix::Resize(rows, cols): the storage grows, it never shrinks
MatrixResize(cap, rows, cols) == Max(cap, rows * cols)

\* variant: the mask is reallocated to the requested size on every call
GetAttnMaskAlways(maskSize, sizeRequired) == sizeRequired

\* getAttnMask(sizeRequired)
GetAttnMask(maskSize, sizeRequired) ==
    IF maskSize < sizeRequired THEN sizeRequired ELSE maskSize

\* rows of the output region, in units of hiddenSize
OutRows(actRows, logitsLen) ==
    IF logitsLen * VocabSize > actRows * HiddenSize
    THEN CDiv(logitsLen * VocabSize, HiddenSize) + 1 ELSE actRows

\* prepareBuffers(ctx, userSideBS, beamSize, logitsAll, prefix)
PrepareBuffers(d, userSideBS, beamSize, logitsAll, prefix) ==
    LET batchSize == d.ctxBatchSize
        seqLen == d.ctxInputSeqLen
        logitsLen == IF logitsAll THEN batchSize * seqLen ELSE userSideBS * beamSize
        actRows == batchSize * seqLen
    IN [d EXCEPT
          !.actCap = MatrixResize(@, actRows + OutRows(actRows, logitsLen), HiddenSize),
          !.maskSize = GetAttnMask(@, batchSize * seqLen * seqLen),
          !.kvCap = IF prefix THEN @ ELSE MaxPositions,
          !.kvRows = IF prefix THEN @ ELSE userSideBS * beamSize,
          !.prefixCap = IF prefix THEN d.prefixSeqLen ELSE @]

\* the decoder's fields after lines 255-297 of forward
DecAfterEnter(d, userSideBS, beamSize, seqLen, step, logitsAll) ==
    LET batchSize == BatchSizeOf(userSideBS, beamSize, step)
        d1 == CtxResize(d, batchSize, seqLen)
        d2 == [d1 EXCEPT !.initSeqLen = InitSeqLenAfter(d, seqLen, step)]
        d3 == IF step = 0 /\ d.prefixSharing
              THEN CtxResize(d2, batchSize, InputSeqLenOf(d, seqLen, step))
              ELSE d2
        d4 == IF step = 0
              THEN PrepareBuffers(d3, userSideBS, beamSize, logitsAll, FALSE)
              ELSE d3
    IN [d4 EXCEPT !.accSeqLen = AccSeqLenAfter(d, seqLen, step)]

\* lines 255-313 of forward: everything before the first communication
Enter(p, userSideBS, beamSize, seqLen, step, logitsAll) ==
    /\ fr[p].pc = "idle"
    /\ dec' = [dec EXCEPT ![p] = DecAfterEnter(@, userSideBS, beamSize, seqLen, step, logitsAll)]
    /\ fr' = [fr EXCEPT ![p] = [NoFrame EXCEPT
                   !.pc = EnterPc(p),
                   !.step = step,
                   !.userSideBS = userSideBS,
                   !.beamSize = beamSize,
                   !.seqLen = seqLen,
                   !.logitsAll = logitsAll,
                   !.batchSize = BatchSizeOf(userSideBS, beamSize, step),
                   !.pastSeqLen = PastSeqLenOf(dec[p], step),
                   !.inputSeqLen = InputSeqLenOf(dec[p], seqLen, step),
                   !.ids = IdsOf(dec[p], userSideBS, beamSize, seqLen, step),
                   !.heap = TempAfterEntry(dec[p], step),
                   !.embBuf = Embedding(p, step)]]
    /\ hist' = [hist EXCEPT ![p] = HistAfter(@, dec[p], seqLen, step)]
    /\ caller' = [caller EXCEPT ![p] = @ + 1]

\* the job's driver: every process passes the same dims and step
JobSeqLen(step) == IF step = 0 THEN job.prompt ELSE 1

Call(p) ==
    /\ caller[p] < MaxStep
    /\ Enter(p, job.userSideBS, job.beamSize, JobSeqLen(caller[p]), caller[p], FALSE)
    /\ UNCHANGED <<ctor, world_size, pipeline, attnMlpParallel, job, net>>

\* ---------------------------------------------- forward: pipeline input
RecvSource(p) == pp_rank(p) - 1
RecvTag(p) == 100 * (pp_rank(p) - 1)

\* MPI matching: the earliest pending message of that source, tag and destination
Matches(m, p) == m.dst = p /\ m.src = RecvSource(p) /\ m.tag = RecvTag(p)
\* variant: the latest pending message is taken first
LastMatch(p) ==
    LET ks == {k \in 1 .. Len(net) : Matches(net[k], p)}
    IN IF ks = {} THEN 0 ELSE CHOOSE k \in ks : \A j \in ks : k >= j

FirstMatch(p) ==
    LET ks == {k \in 1 .. Len(net) : Matches(net[k], p)}
    IN IF ks = {} THEN 0 ELSE CHOOSE k \in ks : \A j \in ks : k <= j

RemoveAt(s, k) == SubSeq(s, 1, k - 1) \o SubSeq(s, k + 1, Len(s))

\* variant: the receive leaves the locally computed embedding in place
RecvIntoKeepsLocal(emb, data) == emb

\* MPI_Recv(embBuf, ...): the received elements replace the buffer's content
RecvInto(emb, data) == data

Recv(p) ==
    /\ fr[p].pc = "recv"
    /\ FirstMatch(p) > 0
    /\ LET m == net[FirstMatch(p)] IN
        /\ m.count <= ActCount(fr[p])
        /\ fr' = [fr EXCEPT ![p] = [@ EXCEPT
                       !.pc = LoopStart,
                       !.recv = m,
                       !.log = Append(@, Ev("MPI_Recv", "embBuf", m.src, m.count, FALSE)),
                       !.embBuf = RecvInto(@, m.data)]]
        /\ net' = RemoveAt(net, FirstMatch(p))
    /\ UNCHANGED <<ctor, world_size, pipeline, attnMlpParallel, job, dec, caller, hist>>

\* ------------------------------------------------- forward: layer loop
GlobalLayer(p) == start_layer(p) + fr[p].i

\* variant: only the first rank of a row takes the multi-worker path
DistributedOnRankZero(p) == tp_size(p) > 1 /\ tp_rank(p) = 0

\* "if (this->messenger.getSize() > 1)"
Distributed(p) == tp_size(p) > 1

\* variant: the attention output is never reduced
NoReduceAfterAttn(p) == FALSE

\* "if constexpr (!ATTN_MLP_PARALLEL) if (getSize() > 1) reduceAdd(attnOut, ...)"
ReduceAfterAttn(p) == ~attnMlpParallel /\ Distributed(p)

\* variant: the cache is expanded in every step of a beam search
ExpandsCacheEveryStep(f) == f.beamSize > 1

\* "if (step == 0 && beamSize > 1)" before kvCacheMgr->expandCache
ExpandsCache(f) == f.step = 0 /\ f.beamSize > 1

\* variant: the prefix is expanded in every step of a prefix-sharing session
ExpandsPrefixEveryStep(f, d) == d.prefixSharing

\* "if (step == 0 && this->prefixSharing)" before kvCacheMgr->expandPrefixCache
ExpandsPrefix(f, d) == f.step = 0 /\ d.prefixSharing

\* ------------------------------------------------------- KVCacheManager
\* The cache of one layer maps (row of the batch x beam dimension, time-step)
\* to what was stored there; a cell never written holds Blank.
Blank == -2
SharedPrefix == -3

At(c, r, t) == IF <<r, t>> \in DOMAIN c THEN c[<<r, t>>] ELSE Blank

\* the cells of `cells` take the value V gives, the others keep theirs
Overwrite(c, cells, V(_, _)) ==
    [x \in (DOMAIN c) \cup cells |-> IF x \in cells THEN V(x[1], x[2]) ELSE c[x]]

\* forwardAttention: every row of the batch stores the keys and values of
\* its inputSeqLen new tokens at time-steps pastSeqLen onwards
AttnWrite(c, batchSize, pastSeqLen, inputSeqLen) ==
    Overwrite(c, (0 .. (batchSize - 1)) \X (pastSeqLen .. (pastSeqLen + inputSeqLen - 1)),
              LAMBDA r, t : r)

\* expandPrefixCache(layerIdx, batchSize, prefixLen)
ExpandPrefixCache(c, batchSize, prefixLen) ==
    Overwrite(c, (0 .. (batchSize - 1)) \X (0 .. (prefixLen - 1)),
              LAMBDA r, t : SharedPrefix)

\* expandCache(layerIdx, batchSize, beamSize, seqLen): row b is duplicated
\* into the rows [b*beamSize, (b+1)*beamSize)
ExpandCache(c, batchSize, beamSize, seqLen) ==
    Overwrite(c, (0 .. (batchSize * beamSize - 1)) \X (0 .. (seqLen - 1)),
              LAMBDA r, t : At(c, r \div beamSize, t))

\* variant: the order of idx is reversed
ReorderRowsReversed(c, idx, size, initSeqLen, accSeqLen) ==
    Overwrite(c, (0 .. (size - 1)) \X (initSeqLen .. (accSeqLen - 1)),
              LAMBDA r, t : At(c, idx[size - r], t))

\* reorderCache(idx, size, initSeqLen, accSeqLen) on one layer: row r takes
\* the content of row idx[r] over the time-steps [initSeqLen, accSeqLen)
ReorderRows(c, idx, size, initSeqLen, accSeqLen) ==
    Overwrite(c, (0 .. (size - 1)) \X (initSeqLen .. (accSeqLen - 1)),
              LAMBDA r, t : At(c, idx[r + 1], t))

\* variant: the length of the new tokens is passed
ExpandCacheArgsInput(f) == <<f.userSideBS, f.beamSize, f.inputSeqLen>>

\* "expandCache(i, userSideBS, beamSize, seqLen)"
ExpandCacheArgs(f) == <<f.userSideBS, f.beamSize, f.seqLen>>

\* the cache of the layer before expandCache: lines 326-343
PreExpansion(p) ==
    LET f == fr[p] d == dec[p]
        c0 == d.kvCache[f.i + 1]
        c1 == IF ExpandsPrefix(f, d)
              THEN ExpandPrefixCache(c0, f.userSideBS, d.prefixSeqLen) ELSE c0
    IN AttnWrite(c1, f.batchSize, f.pastSeqLen, f.inputSeqLen)

\* the cache of the layer after lines 326-346
LayerCacheAfterAttn(p) ==
    LET a == ExpandCacheArgs(fr[p]) IN
    IF ExpandsCache(fr[p]) THEN ExpandCache(PreExpansion(p), a[1], a[2], a[3])
    ELSE PreExpansion(p)

\* events of one layer up to and including forwardAttention and expandCache
AttnEvents(p) ==
    LET f == fr[p] g == GlobalLayer(p) IN
    (IF ExpandsPrefix(f, dec[p])
       THEN <<Ev("expandPrefixCache", "kvCache", g, dec[p].prefixSeqLen, FALSE)>> ELSE <<>>)
    \o <<Ev("forwardAttention", "embBuf", g, f.inputSeqLen, FALSE)>>
    \o (IF ExpandsCache(f)
       THEN <<Ev("expandCache", "kvCache", g, f.seqLen, FALSE)>> ELSE <<>>)

Attn(p) ==
    /\ fr[p].pc = "attn"
    /\ LET f == fr[p] g == GlobalLayer(p) IN
       fr' = [fr EXCEPT ![p] = [@ EXCEPT
                 !.firstIn = IF f.i = 0 THEN f.embBuf ELSE @,
                 !.attnOut = [layer |-> g, partial |-> Distributed(p)],
                 !.log = @ \o AttnEvents(p)
                         \o (IF ReduceAfterAttn(p)
                               THEN <<Ev("reduceAdd", "attnOut", g, ActCount(f), TRUE)>>
                               ELSE <<>>),
                 !.pc = IF ReduceAfterAttn(p) THEN "reduceAttn" ELSE "ffn"]]
    /\ dec' = IF fr[p].prefix THEN dec
              ELSE [dec EXCEPT ![p].kvCache[fr[p].i + 1] = LayerCacheAfterAttn(p)]
    /\ UNCHANGED <<ctor, world_size, pipeline, attnMlpParallel, job, net, caller, hist>>

\* variant: the FFN reads the attention output in both modes
FFNInputAttnOut(p) ==
    Ev("forwardFFN", "attnOut", fr[p].attnOut.layer, 0, fr[p].attnOut.partial)

\* input of forwardFFN: attnOut, or embBuf when attention and MLP run in
\* parallel (count: the layers whose results embBuf holds at that moment)
FFNInput(p) ==
    IF attnMlpParallel
    THEN Ev("forwardFFN", "embBuf", GlobalLayer(p), Len(fr[p].embBuf.layers), FALSE)
    ELSE Ev("forwardFFN", "attnOut", fr[p].attnOut.layer, 0, fr[p].attnOut.partial)

\* the layer's result has been added into embBuf
Accumulate(emb, g) == [emb EXCEPT !.layers = Append(@, g)]

\* "for (int i = 0; i < layers_per_pp_stage; ++i)"
NextPc(i) == IF i + 1 < layers_per_pp_stage THEN "attn" ELSE "tail"

FFN(p) ==
    /\ fr[p].pc = "ffn"
    /\ LET f == fr[p] g == GlobalLayer(p) IN
       IF Distributed(p)
       THEN fr' = [fr EXCEPT ![p] = [@ EXCEPT
                      !.log = @ \o <<FFNInput(p), Ev("reduceAdd", "outBuf", g, ActCount(f), TRUE)>>,
                      !.pc = "reduceFfn"]]
       ELSE fr' = [fr EXCEPT ![p] = [@ EXCEPT
                      !.log = Append(@, FFNInput(p)),
                      !.embBuf = Accumulate(@, g),
                      !.i = @ + 1,
                      !.pc = NextPc(f.i)]]
    /\ UNCHANGED <<ctor, world_size, pipeline, attnMlpParallel, job, dec, net, caller, hist>>

\* the collective a process is blocked in: the last entry of its log
Pending(p) == fr[p].log[Len(fr[p].log)]

\* ccl::allreduce(...).wait(): completes once every rank of the row has issued it
AllArrived(c) ==
    /\ \A q \in Procs : Color(q) = c => fr[q].pc \in {"reduceAttn", "reduceFfn"}
    /\ \A q, r \in Procs : Color(q) = c /\ Color(r) = c =>
           /\ fr[q].pc = fr[r].pc
           /\ Pending(q).count = Pending(r).count

Reduced(p) ==
    LET f == fr[p] g == GlobalLayer(p) IN
    IF f.pc = "reduceAttn"
    THEN [f EXCEPT !.attnOut = [@ EXCEPT !.partial = FALSE],
                   !.log = Append(@, Ev("reduceDone", "attnOut", g, ActCount(f), FALSE)),
                   !.pc = "ffn"]
    ELSE [f EXCEPT !.embBuf = Accumulate(@, g),
                   !.log = Append(@, Ev("reduceDone", "outBuf", g, ActCount(f), FALSE)),
                   !.i = @ + 1,
                   !.pc = NextPc(f.i)]

ReduceAdd(c) ==
    /\ \E q \in Procs : Color(q) = c
    /\ AllArrived(c)
    /\ fr' = [q \in Procs |-> IF Color(q) = c THEN Reduced(q) ELSE fr[q]]
    /\ UNCHANGED <<ctor, world_size, pipeline, attnMlpParallel, job, dec, net, caller, hist>>

\* ------------------------------------------- forward: pipeline output
SendDest(p) == pp_rank(p) + 1
SendTag(p) == 100 * pp_rank(p)

\* "if (pp_rank < pp_size - 1)"
IsLastStage(p) == ~(pp_rank(p) < pp_size - 1)

Message(p) ==
    [src |-> p, dst |-> SendDest(p), tag |-> SendTag(p), step |-> fr[p].step,
     count |-> ActCount(fr[p]), data |-> fr[p].embBuf]

\* MPI_Send in standard mode: the library either buffers the message and
\* returns at once, or returns only after the matching receive has taken it
Send(p) ==
    /\ fr[p].pc = "tail"
    /\ ~fr[p].prefix
    /\ ~IsLastStage(p)
    /\ net' = Append(net, Message(p))
    /\ \E buffered \in BOOLEAN :
         fr' = [fr EXCEPT ![p] = [@ EXCEPT
                   !.log = Append(@, Ev("MPI_Send", "embBuf", SendDest(p), ActCount(fr[p]), FALSE)),
                   !.ret = IF buffered THEN Sentinel ELSE @,
                   !.pc = IF buffered THEN "idle" ELSE "sendWait"]]
    /\ UNCHANGED <<ctor, world_size, pipeline, attnMlpParallel, job, dec, caller, hist>>

InFlight(p) == \E k \in 1 .. Len(net) : net[k].src = p /\ net[k].step = fr[p].step

SendDone(p) ==
    /\ fr[p].pc = "sendWait"
    /\ ~InFlight(p)
    /\ fr' = [fr EXCEPT ![p] = [@ EXCEPT !.ret = Sentinel, !.pc = "idle"]]
    /\ UNCHANGED <<ctor, world_size, pipeline, attnMlpParallel, job, dec, net, caller, hist>>

\* --------------------------------------------- forward: the last stage
\* DistLinear splits the vocabulary over the ranks of the row
SplitSize(p) ==
    (VocabSize \div tp_size(p)) + (IF tp_rank(p) < VocabSize % tp_size(p) THEN 1 ELSE 0)
SplitOffset(p) ==
    tp_rank(p) * (VocabSize \div tp_size(p))
    + (IF tp_rank(p) < VocabSize % tp_size(p) THEN tp_rank(p) ELSE VocabSize % tp_size(p))

\* rows given to lastLayerNormForward and to predictor->forward
FinalRows(f) == IF ~f.logitsAll THEN f.batchSize ELSE f.batchSize * f.seqLen

FinalEvents(f) ==
    (IF f.inputSeqLen > 1 /\ ~f.logitsAll
       THEN <<Ev("copyLastRows", "outBuf", 0, f.batchSize, FALSE)>> ELSE <<>>)
    \o <<Ev("lastLayerNormForward", "embBuf", 0, FinalRows(f), FALSE),
         Ev("predictor", "finalOut", 0, FinalRows(f), FALSE)>>
    \o (IF f.step = 0 /\ f.beamSize > 1
       THEN <<Ev("expandLogits", "finalOut", 0, f.userSideBS * f.beamSize, FALSE)>> ELSE <<>>)

\* variant: the first token of each sequence is taken
FirstRowOf(b, inputSeqLen) == b * inputSeqLen

\* "embBuf + ((b + 1) * inputSeqLen - 1) * hiddenSize": the source row of
\* the copy for sequence b
LastRowOf(b, inputSeqLen) == (b + 1) * inputSeqLen - 1

\* the activation rows lastLayerNormForward reads, in order: the rows copied
\* to outBuf when inputSeqLen > 1 and logitsAll is off, else the leading
\* rows of embBuf itself
LnIn(f) ==
    IF f.inputSeqLen > 1 /\ ~f.logitsAll
    THEN [k \in 1 .. f.batchSize |-> LastRowOf(k - 1, f.inputSeqLen)]
    ELSE [k \in 1 .. FinalRows(f) |-> k - 1]

\* a row of finalOut the projection has not written
Stale == -1

\* predictor->forward(lnOut, finalOut, rows): row r holds the logits of batch
\* row r; the rest of the region the expansion uses keeps what it held
PredictorOut(f) ==
    [k \in 1 .. Max(FinalRows(f), f.userSideBS * f.beamSize) |->
        IF k <= FinalRows(f) THEN k - 1 ELSE Stale]

\* variant: the users are walked from the first to the last
LogitsLoopAscending(userSideBS) == [k \in 1 .. userSideBS |-> k - 1]

\* "for (int b = userSideBS - 1; b >= 0; --b)"
LogitsLoopOrder(userSideBS) == [k \in 1 .. userSideBS |-> userSideBS - k]

\* one iteration: memcpy of row b to every row of [b*beamSize, (b+1)*beamSize)
\* except row b itself
CopyToBeams(out, b, beamSize) ==
    [k \in 1 .. Len(out) |->
        IF (k - 1) \in (b * beamSize) .. ((b + 1) * beamSize - 1) /\ (k - 1) # b
        THEN out[b + 1] ELSE out[k]]

\* finalOut after the first n iterations of the expansion loop
RECURSIVE ExpandedAfter(_, _, _, _)
ExpandedAfter(out, order, beamSize, n) ==
    IF n = 0 THEN out
    ELSE CopyToBeams(ExpandedAfter(out, order, beamSize, n - 1), order[n], beamSize)

\* lines 413-436: the projection, then the expansion to the beams
FinalOut(f) ==
    IF f.step = 0 /\ f.beamSize > 1
    THEN ExpandedAfter(PredictorOut(f), LogitsLoopOrder(f.userSideBS), f.beamSize,
                       f.userSideBS)
    ELSE PredictorOut(f)

\* "if (step == 0 && this->prefixSharing) { free(ids); }"
TempAfterFinal(f, d) ==
    IF f.step = 0 /\ d.prefixSharing THEN f.heap \ {"newIDs"} ELSE f.heap

Finalize(p) ==
    /\ fr[p].pc = "tail"
    /\ ~fr[p].prefix
    /\ IsLastStage(p)
    /\ fr' = [fr EXCEPT ![p] = [@ EXCEPT
                  !.log = @ \o FinalEvents(fr[p]),
                  !.heap = TempAfterFinal(fr[p], dec[p]),
                  !.lnIn = LnIn(fr[p]),
                  !.finalOut = FinalOut(fr[p]),
                  !.ret = <<"finalOut", SplitOffset(p), SplitSize(p)>>,
                  !.pc = "idle"]]
    /\ UNCHANGED <<ctor, world_size, pipeline, attnMlpParallel, job, dec, net, caller, hist>>

\* ------------------------------------------------ the other entry points
\* variant: the accumulated length starts from zero
SkippedLengthsAccZero(n) == [initSeqLen |-> n, accSeqLen |-> 0]

\* "this->initSeqLen = initSeqLen; this->accSeqLen = initSeqLen;"
SkippedLengths(n) == [initSeqLen |-> n, accSeqLen |-> n]

\* skipFirstStep(initSeqLen)
SkipFirstStep(p, n) ==
    /\ fr[p].pc = "idle"
    /\ caller[p] < MaxCalls
    /\ dec' = [dec EXCEPT ![p] = [@ EXCEPT !.initSeqLen = SkippedLengths(n).initSeqLen,
                                          !.accSeqLen = SkippedLengths(n).accSeqLen]]
    /\ hist' = [hist EXCEPT ![p] = [NoHist EXCEPT !.skipped = TRUE, !.lens = <<n>>]]
    /\ caller' = [caller EXCEPT ![p] = @ + 1]
    /\ UNCHANGED <<ctor, world_size, pipeline, attnMlpParallel, job, fr, net>>

\* the decoder's fields after prefixForward(ids, seqLen)
DecAfterPrefixForward(d, seqLen) ==
    PrepareBuffers(CtxResize(d, 1, seqLen), 1, 1, FALSE, TRUE)

PrefixForward(p, n) ==
    /\ fr[p].pc = "idle"
    /\ caller[p] < MaxCalls
    /\ dec' = [dec EXCEPT ![p] = DecAfterPrefixForward(@, n)]
    /\ caller' = [caller EXCEPT ![p] = @ + 1]
    /\ UNCHANGED <<ctor, world_size, pipeline, attnMlpParallel, job, fr, net, hist>>

\* setPrefix(ids, seqLen)
SetPrefix(p, n) ==
    /\ fr[p].pc = "idle"
    /\ caller[p] < MaxCalls
    /\ dec' = [dec EXCEPT ![p] = DecAfterPrefixForward(
                   [@ EXCEPT !.prefixSharing = TRUE, !.prefixSeqLen = n], n)]
    /\ caller' = [caller EXCEPT ![p] = @ + 1]
    /\ UNCHANGED <<ctor, world_size, pipeline, attnMlpParallel, job, fr, net, hist>>

\* variant: prefixForward waits for the previous stage as forward does
PrefixEnterPcAsForward(p) == EnterPc(p)

\* prefixForward has no MPI_Recv before its layer loop
PrefixEnterPc(p) == LoopStart

\* the frame of prefixForward(ids, seqLen): one sequence of seqLen tokens,
\* nothing in the cache before them
PrefixFrame(p, seqLen) ==
    [NoFrame EXCEPT !.pc = PrefixEnterPc(p), !.prefix = TRUE, !.userSideBS = 1,
                    !.beamSize = 1, !.seqLen = seqLen, !.batchSize = 1, !.pastSeqLen = 0,
                    !.inputSeqLen = seqLen, !.ids = InputIds(1, seqLen),
                    !.embBuf = Embedding(p, -1)]

\* prefixForward(ids, seqLen) up to its layer loop, called on its own or, with
\* viaSetPrefix, as the last statement of setPrefix(ids, seqLen)
PrefixEnter(p, seqLen, viaSetPrefix) ==
    /\ fr[p].pc = "idle"
    /\ dec' = [dec EXCEPT ![p] = DecAfterPrefixForward(
                   IF viaSetPrefix
                   THEN [@ EXCEPT !.prefixSharing = TRUE, !.prefixSeqLen = seqLen]
                   ELSE @, seqLen)]
    /\ fr' = [fr EXCEPT ![p] = PrefixFrame(p, seqLen)]
    /\ caller' = [caller EXCEPT ![p] = @ + 1]
    /\ UNCHANGED <<ctor, world_size, pipeline, attnMlpParallel, job, net, hist>>

\* the end of prefixForward: the layer loop is its last statement
PrefixReturn(p) ==
    /\ fr[p].pc = "tail"
    /\ fr[p].prefix
    /\ fr' = [fr EXCEPT ![p] = [@ EXCEPT !.pc = "idle"]]
    /\ UNCHANGED <<ctor, world_size, pipeline, attnMlpParallel, job, dec, net, caller, hist>>

\* unsetPrefix()
UnsetPrefix(p) ==
    /\ fr[p].pc = "idle"
    /\ caller[p] < MaxCalls
    /\ dec[p].prefixSharing
    /\ dec' = [dec EXCEPT ![p] = [@ EXCEPT !.prefixSharing = FALSE]]
    /\ caller' = [caller EXCEPT ![p] = @ + 1]
    /\ UNCHANGED <<ctor, world_size, pipeline, attnMlpParallel, job, fr, net, hist>>

\* variant: the whole populated range is reordered
ReorderArgsFromZero(d, idx, size) == <<idx, size, 0, d.accSeqLen>>

\* "kvCacheMgr->reorderCache(idx, size, initSeqLen, accSeqLen)"
ReorderArgs(d, idx, size) == <<idx, size, d.initSeqLen, d.accSeqLen>>

\* the caches of all layers after reorderCache(idx, size)
ReorderedCaches(d, idx, size) ==
    LET a == ReorderArgs(d, idx, size) IN
    [l \in 1 .. NumLayers |-> ReorderRows(d.kvCache[l], a[1], a[2], a[3], a[4])]

\* reorderCache(idx, size), size = batchSize * beamSize
ReorderCache(p, idx) ==
    /\ fr[p].pc = "idle"
    /\ caller[p] < MaxCalls
    /\ dec' = [dec EXCEPT ![p].kvCache = ReorderedCaches(dec[p], idx, Len(idx))]
    /\ hist' = [hist EXCEPT ![p].reorders = Append(@, idx)]
    /\ caller' = [caller EXCEPT ![p] = @ + 1]
    /\ UNCHANGED <<ctor, world_size, pipeline, attnMlpParallel, job, fr, net>>

\* the index arrays a beam search passes: no change, a permutation of the
\* rows, and the collapse of all rows onto the first
Identity(size) == [k \in 1 .. size |-> k - 1]
Rotation(size) == [k \in 1 .. size |-> k % size]
Collapse(size) == [k \in 1 .. size |-> 0]
Idxs(size) == {Identity(size), Rotation(size), Collapse(size)}

\* a beam search on one process: the prompt at step 0 (longer than the shared
\* prefix, if any), then one token per step
BeamCall(p) ==
    /\ caller[p] < MaxCalls
    /\ IF hist[p].valid
       THEN Enter(p, job.userSideBS, job.beamSize, 1, Len(hist[p].lens), FALSE)
       ELSE \E seqLen \in 1 .. MaxPrompt :
               /\ dec[p].prefixSharing => seqLen > dec[p].prefixSeqLen
               /\ Enter(p, job.userSideBS, job.beamSize, seqLen, 0, FALSE)
    /\ UNCHANGED <<ctor, world_size, pipeline, attnMlpParallel, job, net>>

\* a caller of one process that passes any length and any step
SessionCall(p) ==
    /\ caller[p] < MaxCalls
    /\ \E seqLen \in 1 .. MaxSeqLen, step \in 0 .. (MaxStep - 1) :
          Enter(p, job.userSideBS, job.beamSize, seqLen, step, FALSE)
    /\ UNCHANGED <<ctor, world_size, pipeline, attnMlpParallel, job, net>>

\* ------------------------------------------------------- the constructor
\* "if (layers % pp_size != 0) std::cerr << Warning ...": no exit follows
UnevenLayers == NumLayers % pp_size # 0

\* the decoder of process p after its constructor has returned
Construct(p) == [NewDecoder EXCEPT !.warned = UnevenLayers]

\* ------------------------------------------- context and weight loading
\* the shape parameters of a DecoderContext, with the activation name
BaseShape == [hiddenSize |-> HiddenSize, attHeadNum |-> HiddenSize, kvHeadNum |-> HiddenSize,
              intermediateSize |-> HiddenSize, splitIdx |-> 0, act |-> "silu"]

\* the base shape and the shapes that differ from it in one parameter
Shapes ==
    {BaseShape,
     [BaseShape EXCEPT !.hiddenSize = @ + 1], [BaseShape EXCEPT !.attHeadNum = @ + 1],
     [BaseShape EXCEPT !.kvHeadNum = @ + 1], [BaseShape EXCEPT !.intermediateSize = @ + 1],
     [BaseShape EXCEPT !.splitIdx = @ + 1], [BaseShape EXCEPT !.act = "gelu"]}

\* "std::shared_ptr<DecoderContext> context" before anything is stored in it
NoContext == [hiddenSize |-> 0, attHeadNum |-> 0, kvHeadNum |-> 0,
              intermediateSize |-> 0, splitIdx |-> 0, act |-> "none"]

\* pointers: null, a buffer with the offsets added to it, and the result of
\* arithmetic on a null pointer that did not come out null
Nullptr == [buf |-> "nullptr", off |-> <<>>]
Invalid == [buf |-> "invalid", off |-> <<>>]
Buffer(name) == [buf |-> name, off |-> <<>>]

\* the optional files in the order of their READ_OPTIONAL
OptionalFiles == <<"qkvBias", "attnOutBias", "ln1Beta", "ln2Beta", "fc1Bias", "fc2Bias">>
OptionalSet == {OptionalFiles[k] : k \in 1 .. Len(OptionalFiles)}

\* element count asked of loadWeight for an optional file
FileSize == HiddenSize

\* what loadWeight(..., required = false) can return: nothing read, a short
\* read, everything read
Rets == {0, FileSize - 1, FileSize}

NoRets == [f \in OptionalSet |-> -1]

\* the members of LlamaMLP that setWeights writes
MlpFields == {"gate", "up", "packed", "down", "norm"}
NoMlp == [f \in MlpFields |-> "none"]

\* ret: which return of getDecoderContext the last call took; rets, params:
\* the locals of setDecoderWeights while it is in pdecoder->setWeights
NewCtor == [context |-> NoContext, ret |-> "none", exit |-> "no", rets |-> NoRets,
            params |-> <<>>, mlp |-> NoMlp]

Alive == ctor.exit = "no"

\* no call of setDecoderWeights is under way
Outside == Alive /\ ctor.params = <<>>

\* setSharedResources(r): the context of another decoder is installed
SetSharedResources(shape) ==
    /\ Outside
    /\ ctor' = [ctor EXCEPT !.context = shape]
    /\ UNCHANGED <<world_size, pipeline, attnMlpParallel, job, dec, fr, net, caller, hist>>

\* variant: the rank of the split is not compared
CompatibleWithoutSplit(c, a) ==
    /\ c.hiddenSize = a.hiddenSize
    /\ c.attHeadNum = a.attHeadNum
    /\ c.kvHeadNum = a.kvHeadNum
    /\ c.intermediateSize = a.intermediateSize

\* the condition under which getDecoderContext returns the existing context
Compatible(c, a) ==
    /\ c.hiddenSize = a.hiddenSize
    /\ c.attHeadNum = a.attHeadNum
    /\ c.kvHeadNum = a.kvHeadNum
    /\ c.intermediateSize = a.intermediateSize
    /\ c.splitIdx = a.splitIdx

\* getDecoderContext(layers, hiddenSize, attHeadNum, kvHeadNum, imSize, act,
\* ...) on process 0, whose splitIdx is messenger.getRank()
GetDecoderContext(a) ==
    /\ Outside
    /\ LET args == [a EXCEPT !.splitIdx = tp_rank(0)] IN
       IF ctor.context # NoContext
       THEN IF Compatible(ctor.context, args)
            THEN ctor' = [ctor EXCEPT !.ret = "existing"]
            ELSE ctor' = [ctor EXCEPT !.exit = "context"]
       ELSE ctor' = [ctor EXCEPT !.context = args, !.ret = "created"]
    /\ UNCHANGED <<world_size, pipeline, attnMlpParallel, job, dec, fr, net, caller, hist>>

\* READ_OPTIONAL: "if (ret == 0) { free(addr); addr = nullptr; }"
AfterReadOptional(name, ret) == IF ret = 0 THEN Nullptr ELSE Buffer(name)

\* READ_OPTIONAL: "else if (ret != (size)) { printf(errmsg); exit(-1); }"
ReadFails(ret) == ret # 0 /\ ret # FileSize

\* "ptr + n": on a null pointer the behaviour is undefined, the build gives
\* either of the outcomes ub
Offset(ptr, n, ub) ==
    IF ptr = Nullptr THEN ub
    ELSE IF ptr = Invalid THEN Invalid
    ELSE [ptr EXCEPT !.off = Append(@, n)]

NullOffsetOutcomes == {Nullptr, Invalid}

\* "std::vector<float *> params = {qkvWeight, qkvBias, qkvWeight + qSize, ...}"
Params(b, fc3Weight, ub) ==
    <<Buffer("qkvWeight"), b["qkvBias"],
      Offset(Buffer("qkvWeight"), "qSize", ub), Offset(b["qkvBias"], "qSize", ub),
      Offset(Offset(Buffer("qkvWeight"), "qSize", ub), "kvSize", ub),
      Offset(Offset(b["qkvBias"], "qSize", ub), "kvSize", ub),
      Buffer("attnOutWeight"), b["attnOutBias"], Buffer("ln1Gamma"), b["ln1Beta"],
      Buffer("fc1Weight"), b["fc1Bias"], Buffer("fc2Weight"), b["fc2Bias"],
      Buffer("ln2Gamma"), b["ln2Beta"], fc3Weight>>

\* "auto pdec = new DECODER(ctx, i); this->setDecoderWeights(pdec, ...)"
CanLoad == Outside /\ ctor.context # NoContext /\ ctor.mlp = NoMlp

\* setDecoderWeights(pdecoder, modelPath, layerIdx) up to its call of
\* pdecoder->setWeights: the required files are there, rets are the results
\* of the optional reads, llamaLike tells that the gate/up/down files are used
SetDecoderWeights(rets, llamaLike, ub) ==
    /\ CanLoad
    /\ LET b == [f \in OptionalSet |-> AfterReadOptional(f, rets[f])]
           fc3Weight == IF llamaLike THEN Buffer("fc3Weight") ELSE Nullptr
       IN IF \E f \in OptionalSet : ReadFails(rets[f])
          THEN ctor' = [ctor EXCEPT !.rets = rets, !.exit = "weights"]
          ELSE ctor' = [ctor EXCEPT !.rets = rets, !.params = Params(b, fc3Weight, ub)]
    /\ UNCHANGED <<world_size, pipeline, attnMlpParallel, job, dec, fr, net, caller, hist>>

\* REQUIRES(assertion, message): the process ends when the assertion is false
Requires(assertion) == assertion

\* variant: the activation is checked after the weights are stored
MlpStatementsCheckLast == <<"gate", "up", "packed", "down", "norm", "REQUIRES">>

\* LlamaMLP::setWeights, statement by statement
MlpStatements == <<"REQUIRES", "gate", "up", "packed", "down", "norm">>

\* one statement: st.mlp are the members, st.failed tells that REQUIRES ended
\* the process
MlpStatement(st, name, ctx, w, normW) ==
    IF name = "REQUIRES" THEN [st EXCEPT !.failed = ~Requires(ctx.act = "silu")]
    ELSE IF name = "norm" /\ normW = Nullptr THEN st
    ELSE [st EXCEPT !.mlp[name] = w]

RECURSIVE MlpAfter(_, _, _, _, _, _)
MlpAfter(st, statements, k, ctx, w, normW) ==
    IF k > Len(statements) \/ st.failed THEN st
    ELSE MlpAfter(MlpStatement(st, statements[k], ctx, w, normW), statements, k + 1,
                  ctx, w, normW)

\* the weight sets a caller passes
WeightSets == {"a", "b"}

\* LlamaMLP::setWeights(ctx, gateW, ..., upW, ..., normW, ..., downW, ...),
\* called by the layer inside setDecoderWeights or on its own; when it
\* returns into setDecoderWeights the buffers are freed
LlamaMLPSetWeights(w, normW) ==
    /\ Alive
    /\ ctor.context # NoContext
    /\ LET st == MlpAfter([mlp |-> ctor.mlp, failed |-> FALSE], MlpStatements, 1,
                          ctor.context, w, normW)
       IN ctor' = [ctor EXCEPT !.mlp = st.mlp,
                               !.exit = IF st.failed THEN "activation" ELSE @,
                               !.rets = IF st.failed THEN @ ELSE NoRets,
                               !.params = IF st.failed THEN @ ELSE <<>>]
    /\ UNCHANGED <<world_size, pipeline, attnMlpParallel, job, dec, fr, net, caller, hist>>

\* ------------------------------------------------ LlamaMLP::forward
\* SplitUtil::getTaskRange(N, splitNum, splitIdx): the part of 0 .. N-1 of one
\* split, the first N % splitNum splits being one longer
TaskRange(N, splitNum, splitIdx) ==
    LET base == N \div splitNum
        rem == N % splitNum
        first == splitIdx * base + (IF splitIdx < rem THEN splitIdx ELSE rem)
    IN <<first, first + base + (IF splitIdx < rem THEN 1 ELSE 0)>>

\* the shape of an hpj::Matrix
Matrix(rows, cols) == [rows |-> rows, cols |-> cols]

NoMatrix == Matrix(0, 0)

\* MMHelper::convertWeight(ctx, trans, rows, cols, ..., verticalSplit, ...):
\* the part of a rows x cols weight that the split of ctx holds
ConvertWeight(ctx, rows, cols, verticalSplit) ==
    LET it == TaskRange(IF verticalSplit THEN cols ELSE rows, ctx.numSplit, ctx.splitIdx) IN
    IF verticalSplit THEN Matrix(rows, it[2] - it[1]) ELSE Matrix(it[2] - it[1], cols)

\* "catWeights.Resize(gateWeight.Rows(), gateWeight.Cols() + upWeight.Cols())"
CatGateUpWeights(gateWeight, upWeight) ==
    Matrix(gateWeight.rows, gateWeight.cols + upWeight.cols)

\* the weights of LlamaMLP after setWeights; cblasBf16 stands for
\* "enableCBLASMLP && std::is_same_v<WeiT, bfloat16_t>"
MlpWeights(ctx, enableCATMLP, cblasBf16) ==
    LET it == TaskRange(ctx.intermediateSize, ctx.numSplit, ctx.splitIdx)
        quantizedGateWeight == ConvertWeight(ctx, ctx.hiddenSize, ctx.intermediateSize, TRUE)
        quantizedUpWeight == ConvertWeight(ctx, ctx.hiddenSize, ctx.intermediateSize, TRUE)
        quantizedCatWeights == CatGateUpWeights(quantizedGateWeight, quantizedUpWeight)
    IN [gateWeight |-> IF ~enableCATMLP THEN Matrix(ctx.hiddenSize, it[2] - it[1]) ELSE NoMatrix,
        upWeight |-> IF ~enableCATMLP THEN Matrix(ctx.hiddenSize, it[2] - it[1]) ELSE NoMatrix,
        catWeights |-> IF enableCATMLP
                       THEN Matrix(quantizedCatWeights.rows, quantizedCatWeights.cols)
                       ELSE NoMatrix,
        downWeight |-> IF cblasBf16
                       THEN ConvertWeight(ctx, ctx.intermediateSize, ctx.hiddenSize, FALSE)
                       ELSE Matrix(it[2] - it[1], ctx.hiddenSize)]

\* the buffers of the context after DecoderContext::resize for M rows
CtxBuffers(ctx, M) ==
    LET it == TaskRange(ctx.intermediateSize, ctx.numSplit, ctx.splitIdx) IN
    [normBuf |-> Matrix(M, ctx.hiddenSize), imOut |-> Matrix(M, it[2] - it[1])]

\* one call of a projection: the values of its assert statements in order
\* and whether it adds the residual
ProjCall(fn, asserts, residual) == [fn |-> fn, asserts |-> asserts, residual |-> residual]

GateProj(w, input, output) ==
    ProjCall("gateProj", <<input.rows = output.rows, input.cols = w.gateWeight.rows,
                           w.gateWeight.cols = output.cols>>, FALSE)

UpProj(w, input, output) ==
    ProjCall("upProj", <<input.rows = output.rows, input.cols = w.upWeight.rows,
                         w.upWeight.cols = output.cols>>, FALSE)

CatGateUpProj(w, input, output) ==
    ProjCall("catGateUpProj", <<input.rows = output.rows, input.cols = w.catWeights.rows,
                                w.catWeights.cols = output.cols>>, FALSE)

\* downProj(ctx, input, output, residential, isMaster): compute_residential
\* for the master, compute for the others
DownProj(w, input, output, enableCATMLP, isMaster) ==
    ProjCall("downProj",
             <<input.rows = output.rows,
               IF ~enableCATMLP THEN input.cols = w.downWeight.rows
               ELSE input.cols = 2 * w.downWeight.rows,
               w.downWeight.cols = output.cols>>, isMaster)

\* variant: every rank is the master
IsMasterAlways(ctx) == TRUE

\* "ctx->splitIdx == 0"
IsMaster(ctx) == ctx.splitIdx = 0

\* the projections LlamaMLP::forward calls for M = batchSize * inputSeqLen
\* rows, in order; imT is the intermediate type ImT
MlpCalls(ctx, w, M, enableCATMLP, imT, doLnBefore) ==
    LET inBuffer == Matrix(M, ctx.hiddenSize)
        outBuffer == Matrix(M, ctx.hiddenSize)
        normBuffer == CtxBuffers(ctx, M).normBuf
        input == IF doLnBefore THEN normBuffer ELSE inBuffer
    IN IF ~enableCATMLP
       THEN LET imBuffer == CtxBuffers(ctx, M).imOut IN
            <<GateProj(w, input, imBuffer), UpProj(w, input, imBuffer),
              DownProj(w, imBuffer, outBuffer, enableCATMLP, IsMaster(ctx))>>
       ELSE LET N == w.catWeights.cols
                imBuffer == Matrix(normBuffer.rows, N)
                siluBuf == Matrix(normBuffer.rows, N \div 2)
            IN IF imT = "bfloat16"
               THEN <<CatGateUpProj(w, input, imBuffer),
                      DownProj(w, siluBuf, outBuffer, enableCATMLP, IsMaster(ctx))>>
               ELSE <<CatGateUpProj(w, input, imBuffer),
                      DownProj(w, imBuffer, outBuffer, enableCATMLP, IsMaster(ctx))>>

\* assert(e) of a build without NDEBUG ends the process when e is false
Holds(call) == \A k \in 1 .. Len(call.asserts) : call.asserts[k]

\* the calls that run: all of them with NDEBUG, else those up to the first
\* call with a false assertion
RECURSIVE Ran(_, _, _)
Ran(calls, k, ndebug) ==
    IF k > Len(calls) THEN <<>>
    ELSE IF ~ndebug /\ ~Holds(calls[k]) THEN <<calls[k]>>
    ELSE <<calls[k]>> \o Ran(calls, k + 1, ndebug)

\* the MLP layer of one rank: its context, its weights and its last forward
NoWeights == [gateWeight |-> NoMatrix, upWeight |-> NoMatrix, catWeights |-> NoMatrix,
              downWeight |-> NoMatrix]

MlpLayer(p) ==
    [context |-> [hiddenSize |-> HiddenSize, intermediateSize |-> job.imSize,
                  numSplit |-> tp_size(p), splitIdx |-> tp_rank(p), act |-> "silu"],
     weights |-> NoWeights, ran |-> <<>>, exit |-> "no"]

\* LlamaMLP::setWeights on rank p, as far as the shapes of the weights go
MlpSetWeights(p) ==
    /\ ctor[p].exit = "no"
    /\ ctor[p].weights = NoWeights
    /\ Requires(ctor[p].context.act = "silu")
    /\ ctor' = [ctor EXCEPT ![p].weights =
                   MlpWeights(ctor[p].context, job.enableCATMLP, job.cblasBf16)]
    /\ UNCHANGED <<world_size, pipeline, attnMlpParallel, job, dec, fr, net, caller, hist>>

\* LlamaMLP::forward(ctx, input, output, iStride, oStride, doLnBefore) on rank p
MlpForward(p) ==
    /\ ctor[p].exit = "no"
    /\ ctor[p].weights # NoWeights
    /\ ctor[p].ran = <<>>
    /\ LET calls == MlpCalls(ctor[p].context, ctor[p].weights, job.M, job.enableCATMLP,
                             job.imT, job.doLnBefore)
           ran == Ran(calls, 1, job.ndebug)
       IN ctor' = [ctor EXCEPT ![p].ran = ran,
                               ![p].exit = IF ~job.ndebug /\ ~Holds(ran[Len(ran)])
                                           THEN "assert" ELSE "no"]
    /\ UNCHANGED <<world_size, pipeline, attnMlpParallel, job, dec, fr, net, caller, hist>>

\* the sizes and the build of a job of MLP layers
ImSizes == {2 * HiddenSize, 2 * HiddenSize + 1}

MlpJobs ==
    [imSize : ImSizes, enableCATMLP : BOOLEAN, cblasBf16 : BOOLEAN,
     imT : {"float", "bfloat16"}, ndebug : BOOLEAN, M : {1, MaxBatch * MaxPrompt},
     doLnBefore : BOOLEAN]

\* -------------------------------------------------------- specifications
Topologies ==
    {t \in (1 .. MaxWorld) \X (1 .. MaxWorld) : t[1] % t[2] = 0}

\* the dims of a job: the smallest ones and the largest ones
Jobs == {[userSideBS |-> 1, beamSize |-> 1, prompt |-> 1],
         [userSideBS |-> MaxBatch, beamSize |-> MaxBeam, prompt |-> MaxPrompt]}

\* every batch and beam size of a beam search on one process
SessionJobs == [userSideBS : 1 .. MaxBatch, beamSize : 1 .. MaxBeam, prompt : {1}]

\* a job of world_size processes, every one with a freshly constructed decoder
Init ==
    /\ \E t \in Topologies : world_size = t[1] /\ pipeline = t[2]
    /\ attnMlpParallel \in BOOLEAN
    /\ job \in Jobs
    /\ dec = [p \in Procs |-> Construct(p)]
    /\ fr = [p \in Procs |-> NoFrame]
    /\ net = <<>>
    /\ caller = [p \in Procs |-> 0]
    /\ hist = [p \in Procs |-> NoHist]
    /\ ctor = NewCtor

Next ==
    \/ \E p \in Procs : Call(p)
    \/ \E p \in Procs : Recv(p)
    \/ \E p \in Procs : Attn(p)
    \/ \E p \in Procs : FFN(p)
    \/ \E c \in 0 .. (pp_size - 1) : ReduceAdd(c)
    \/ \E p \in Procs : Send(p)
    \/ \E p \in Procs : SendDone(p)
    \/ \E p \in Procs : Finalize(p)

Spec == Init /\ [][Next]_vars

\* no rank crashes or stalls: a step that stays possible is eventually taken
Fairness ==
    /\ \A p \in 0 .. (MaxWorld - 1) :
         WF_vars(p \in Procs /\ (Call(p) \/ Recv(p) \/ Attn(p) \/ FFN(p)
                                  \/ Send(p) \/ SendDone(p) \/ Finalize(p)))
    /\ \A c \in 0 .. (MaxWorld - 1) : WF_vars(c < pp_size /\ ReduceAdd(c))

\* the jobs of every topology, with the smallest dims
FairInit == Init /\ job = [userSideBS |-> 1, beamSize |-> 1, prompt |-> 1]

FairSpec == FairInit /\ [][Next]_vars /\ Fairness

\* one process, driven by a caller that uses every entry point
SessionInit ==
    /\ world_size = 1
    /\ pipeline = 1
    /\ attnMlpParallel \in BOOLEAN
    /\ job \in Jobs
    /\ dec = [p \in Procs |-> Construct(p)]
    /\ fr = [p \in Procs |-> NoFrame]
    /\ net = <<>>
    /\ caller = [p \in Procs |-> 0]
    /\ hist = [p \in Procs |-> NoHist]
    /\ ctor = NewCtor

SessionNext ==
    \/ \E p \in Procs : SessionCall(p)
    \/ \E p \in Procs : Attn(p)
    \/ \E p \in Procs : FFN(p)
    \/ \E p \in Procs : Finalize(p)
    \/ \E p \in Procs, n \in 1 .. MaxSeqLen : SkipFirstStep(p, n)
    \/ \E p \in Procs, n \in 1 .. MaxSeqLen : PrefixForward(p, n)
    \/ \E p \in Procs, n \in 1 .. MaxSeqLen : SetPrefix(p, n)
    \/ \E p \in Procs : UnsetPrefix(p)

SessionSpec == SessionInit /\ [][SessionNext]_vars

\* one process running beam searches
BeamNext ==
    \/ \E p \in Procs : BeamCall(p)
    \/ \E p \in Procs : Attn(p)
    \/ \E p \in Procs : FFN(p)
    \/ \E p \in Procs : Finalize(p)
    \/ \E p \in Procs, n \in 1 .. MaxSeqLen : SetPrefix(p, n)
    \/ \E p \in Procs : \E idx \in Idxs(job.userSideBS * job.beamSize) : ReorderCache(p, idx)

BeamInit ==
    /\ world_size = 1
    /\ pipeline = 1
    /\ attnMlpParallel \in BOOLEAN
    /\ job \in SessionJobs
    /\ dec = [p \in Procs |-> Construct(p)]
    /\ fr = [p \in Procs |-> NoFrame]
    /\ net = <<>>
    /\ caller = [p \in Procs |-> 0]
    /\ hist = [p \in Procs |-> NoHist]
    /\ ctor = NewCtor

BeamSpec == BeamInit /\ [][BeamNext]_vars

\* the jobs mpirun can start: any process count with any stage count up to it
LaunchTopologies ==
    {t \in (1 .. MaxWorld) \X (1 .. MaxWorld) : t[2] <= t[1]}

LaunchInit ==
    /\ \E t \in LaunchTopologies : world_size = t[1] /\ pipeline = t[2]
    /\ attnMlpParallel \in BOOLEAN
    /\ job = [userSideBS |-> 1, beamSize |-> 1, prompt |-> 1]
    /\ dec = [p \in Procs |-> Construct(p)]
    /\ fr = [p \in Procs |-> NoFrame]
    /\ net = <<>>
    /\ caller = [p \in Procs |-> 0]
    /\ hist = [p \in Procs |-> NoHist]
    /\ ctor = NewCtor

LaunchSpec == LaunchInit /\ [][Next]_vars

\* a job whose processes all make the same two calls: a prefix call and a
\* forward call of step 0, in either order
Scripts == {<<"setPrefix", "forward">>, <<"prefixForward", "forward">>,
            <<"forward", "setPrefix">>, <<"forward", "prefixForward">>}

PrefixJobs ==
    [userSideBS : {1}, beamSize : {1}, prompt : 1 .. MaxPrompt, prefixLen : 1 .. MaxSeqLen,
     logitsAll : BOOLEAN, script : Scripts]

\* the next call of the script of process p
ScriptCall(p) ==
    /\ caller[p] < Len(job.script)
    /\ LET c == job.script[caller[p] + 1] IN
       IF c = "forward"
       THEN /\ Enter(p, job.userSideBS, job.beamSize, job.prompt, 0, job.logitsAll)
            /\ UNCHANGED <<ctor, world_size, pipeline, attnMlpParallel, job, net>>
       ELSE PrefixEnter(p, job.prefixLen, c = "setPrefix")

\* one or two processes, in one row or in two stages
PrefixTopologies == {t \in Topologies : t[1] <= 2}

PrefixInit ==
    /\ \E t \in PrefixTopologies : world_size = t[1] /\ pipeline = t[2]
    /\ attnMlpParallel \in BOOLEAN
    /\ job \in PrefixJobs
    /\ dec = [p \in Procs |-> Construct(p)]
    /\ fr = [p \in Procs |-> NoFrame]
    /\ net = <<>>
    /\ caller = [p \in Procs |-> 0]
    /\ hist = [p \in Procs |-> NoHist]
    /\ ctor = NewCtor

PrefixNext ==
    \/ \E p \in Procs : ScriptCall(p)
    \/ \E p \in Procs : Recv(p)
    \/ \E p \in Procs : Attn(p)
    \/ \E p \in Procs : FFN(p)
    \/ \E c \in 0 .. (pp_size - 1) : ReduceAdd(c)
    \/ \E p \in Procs : Send(p)
    \/ \E p \in Procs : SendDone(p)
    \/ \E p \in Procs : Finalize(p)
    \/ \E p \in Procs : PrefixReturn(p)

PrefixSpec == PrefixInit /\ [][PrefixNext]_vars

\* one process and every call that reads or writes the session counters
CounterNext ==
    \/ \E p \in Procs : SessionCall(p)
    \/ \E p \in Procs : Attn(p)
    \/ \E p \in Procs : FFN(p)
    \/ \E p \in Procs : Finalize(p)
    \/ \E p \in Procs, n \in 1 .. MaxSeqLen : SkipFirstStep(p, n)
    \/ \E p \in Procs, n \in 1 .. MaxSeqLen : PrefixForward(p, n)
    \/ \E p \in Procs, n \in 1 .. MaxSeqLen : SetPrefix(p, n)
    \/ \E p \in Procs : UnsetPrefix(p)
    \/ \E p \in Procs : \E idx \in Idxs(job.userSideBS * job.beamSize) : ReorderCache(p, idx)

CounterSpec == SessionInit /\ [][CounterNext]_vars

\* the MLP layers of the ranks of a job, each set up and run once
MlpInit ==
    /\ \E t \in Topologies : world_size = t[1] /\ pipeline = t[2]
    /\ attnMlpParallel = FALSE
    /\ job \in MlpJobs
    /\ dec = [p \in Procs |-> Construct(p)]
    /\ fr = [p \in Procs |-> NoFrame]
    /\ net = <<>>
    /\ caller = [p \in Procs |-> 0]
    /\ hist = [p \in Procs |-> NoHist]
    /\ ctor = [p \in Procs |-> MlpLayer(p)]

MlpNext ==
    \/ \E p \in Procs : MlpSetWeights(p)
    \/ \E p \in Procs : MlpForward(p)

MlpSpec == MlpInit /\ [][MlpNext]_vars

\* the construction of the decoder of one process and what may follow it
LoadInit ==
    /\ world_size = 1
    /\ pipeline = 1
    /\ attnMlpParallel = FALSE
    /\ job = [userSideBS |-> 1, beamSize |-> 1, prompt |-> 1]
    /\ dec = [p \in Procs |-> Construct(p)]
    /\ fr = [p \in Procs |-> NoFrame]
    /\ net = <<>>
    /\ caller = [p \in Procs |-> 0]
    /\ hist = [p \in Procs |-> NoHist]
    /\ ctor = NewCtor

LoadNext ==
    \/ \E shape \in Shapes : SetSharedResources(shape)
    \/ \E a \in Shapes : GetDecoderContext(a)
    \/ /\ CanLoad
       /\ \E rets \in [OptionalSet -> Rets], llamaLike \in BOOLEAN, ub \in NullOffsetOutcomes :
              SetDecoderWeights(rets, llamaLike, ub)
    \/ \E w \in WeightSets, normW \in {Nullptr, Buffer("normW")} : LlamaMLPSetWeights(w, normW)

LoadSpec == LoadInit /\ [][LoadNext]_vars

\* ------------------------------------------------------------ properties
IsPrefix(a, b) == Len(a) <= Len(b) /\ SubSeq(b, 1, Len(a)) = a

RECURSIVE SumSeq(_)
SumSeq(s) == IF s = <<>> THEN 0 ELSE Head(s) + SumSeq(Tail(s))

LayerEvs == {"forwardAttention", "forwardFFN", "reduceAdd", "reduceDone",
             "expandCache", "expandPrefixCache"}

IsLayerEv(e) == e.ev \in LayerEvs
IsCollective(e) == e.ev = "reduceAdd"
IsOrderEv(e) == e.ev \in {"forwardAttention", "forwardFFN", "reduceAdd", "reduceDone"}

\* positions of the log of p that hold an event of the layer loop
LayerPos(p) == {k \in 1 .. Len(fr[p].log) : IsLayerEv(fr[p].log[k])}
RecvPos(p) == {k \in 1 .. Len(fr[p].log) : fr[p].log[k].ev = "MPI_Recv"}

\* the process is inside a forward call / has left the layer loop of its call
InCall(p) == fr[p].pc # "idle"
Returned(p) == fr[p].pc = "idle" /\ fr[p].step >= 0
PastLoop(p) == fr[p].step >= 0 /\ fr[p].pc \in {"tail", "sendWait", "idle"}

\* the layers 0 .. n-1 in ascending order
FirstLayers(n) == [k \in 1 .. n |-> k - 1]

\* C1: a process of a stage k+1 > 0 runs a local layer of step s only after
\* its receive has completed, the message it received is the output of stage
\* k for step s (all layers below its own applied), and that message, not the
\* locally computed embedding, is the input of its first local layer
C1_ReceiveGatesLayers ==
    \A p \in Procs :
        (pp_rank(p) > 0 /\ LayerPos(p) # {}) =>
            /\ fr[p].recv # NoMsg
            /\ \E r \in RecvPos(p) : \A k \in LayerPos(p) : r < k
            /\ Color(fr[p].recv.src) = pp_rank(p) - 1
            /\ fr[p].recv.step = fr[p].step
            /\ fr[p].recv.data.step = fr[p].step
            /\ fr[p].recv.data.layers = FirstLayers(start_layer(p))
            /\ fr[p].firstIn = fr[p].recv.data

C1_Witness ==
    \E p \in Procs :
        /\ pp_rank(p) > 0
        /\ fr[p].step = 1
        /\ fr[p].firstIn = fr[p].recv.data
        /\ fr[p].firstIn.by # p
        /\ fr[p].firstIn.layers # <<>>

\* C2: every message is sent from a process of a stage k to a process of
\* stage k+1, and every receive names a source process of the stage before
C2_AdjacentStagesOnly ==
    /\ \A k \in 1 .. Len(net) : Color(net[k].dst) = Color(net[k].src) + 1
    /\ \A p \in Procs : fr[p].pc = "recv" => Color(RecvSource(p)) = pp_rank(p) - 1

\* C3: with no crashed or stalled rank, every forward call eventually returns
C3_EveryCallReturns ==
    \A p \in 0 .. (MaxWorld - 1) :
        (p \in Procs /\ InCall(p)) ~> (p \in Procs /\ ~InCall(p))

\* C4: the ranks of a row issue the same sequence of reduce-add collectives
\* in a step: a rank that has left the layer loop has issued every collective
\* a peer has issued, each with batchSize*inputSeqLen*hiddenSize elements,
\* and a row of one rank issues none
Collectives(p) == SelectSeq(fr[p].log, IsCollective)

C4_SameCollectives ==
    /\ \A p, q \in Procs :
         (Color(p) = Color(q) /\ fr[p].step = fr[q].step) =>
            /\ IsPrefix(Collectives(p), Collectives(q))
                 \/ IsPrefix(Collectives(q), Collectives(p))
            /\ PastLoop(p) => IsPrefix(Collectives(q), Collectives(p))
    /\ \A p \in Procs :
         /\ \A k \in 1 .. Len(Collectives(p)) :
               Collectives(p)[k].count = fr[p].batchSize * fr[p].inputSeqLen * HiddenSize
         /\ tp_size(p) = 1 => Collectives(p) = <<>>
         /\ (tp_size(p) > 1 /\ PastLoop(p)) =>
               Len(Collectives(p))
                   = layers_per_pp_stage * (IF attnMlpParallel THEN 1 ELSE 2)

C4_Witness ==
    \E p, q \in Procs :
        /\ p # q
        /\ Color(p) = Color(q)
        /\ Returned(p) /\ Returned(q)
        /\ fr[p].step = 1 /\ fr[q].step = 1
        /\ Len(Collectives(p)) >= 2
        /\ Collectives(p) = Collectives(q)

\* C5: the tag of stage k's send is the tag stage k+1's receive expects, and
\* a receive of step s consumes the message its sender sent in step s
TagsAgree ==
    /\ \A p, q \in Procs : pp_rank(q) = pp_rank(p) + 1 => SendTag(p) = RecvTag(q)
    /\ \A k \in 1 .. Len(net) : net[k].tag = 100 * Color(net[k].src)

SameChannel(m, n) == m.src = n.src /\ m.dst = n.dst /\ m.tag = n.tag

ConsumedInStepOrder ==
    /\ \A p \in Procs : fr[p].recv # NoMsg => fr[p].recv.step = fr[p].step
    /\ \A j, k \in 1 .. Len(net) :
         (j < k /\ SameChannel(net[j], net[k])) => net[j].step < net[k].step

HasEv(p, name) == \E k \in 1 .. Len(fr[p].log) : fr[p].log[k].ev = name

C6_OnlyLastStageReturnsLogits ==
    \A p \in Procs :
        Returned(p) =>
            IF pp_rank(p) < pp_size - 1
            THEN /\ fr[p].ret = Sentinel
                 /\ ~HasEv(p, "lastLayerNormForward") /\ ~HasEv(p, "predictor")
                 /\ \E k \in 1 .. Len(fr[p].log) :
                        /\ fr[p].log[k].ev = "MPI_Send"
                        /\ Color(fr[p].log[k].layer) = pp_rank(p) + 1
            ELSE /\ fr[p].ret = <<"finalOut", SplitOffset(p), SplitSize(p)>>
                 /\ ~HasEv(p, "MPI_Send")

\* C7: in a session that starts with step 0 and uses no prefix sharing,
\* accSeqLen is the sum of the lengths of the calls made so far
C7_AccIsSumOfLengths ==
    \A p \in Procs :
        (hist[p].valid /\ ~hist[p].shared) => dec[p].accSeqLen = SumSeq(hist[p].lens)

C7_Witness ==
    \E p \in Procs :
        /\ hist[p].valid /\ ~hist[p].shared
        /\ Len(hist[p].lens) >= 2
        /\ caller[p] > Len(hist[p].lens)
        /\ Returned(p)

\* C8: a step-0 call sets initSeqLen and accSeqLen to its seqLen whatever they
\* were, a call with step > 0 keeps initSeqLen, and the rest of a call leaves
\* both alone
Entering(p) == fr[p].pc = "idle" /\ fr'[p].pc # "idle"

C8_StepZeroResets ==
    [][\A p \in Procs :
          /\ (Entering(p) /\ fr'[p].step = 0) =>
                 /\ dec'[p].initSeqLen = fr'[p].seqLen
                 /\ dec'[p].accSeqLen = fr'[p].seqLen
          /\ (Entering(p) /\ fr'[p].step > 0) =>
                 dec'[p].initSeqLen = dec[p].initSeqLen
          /\ InCall(p) =>
                 /\ dec'[p].initSeqLen = dec[p].initSeqLen
                 /\ dec'[p].accSeqLen = dec[p].accSeqLen]_vars

C8_Witness ==
    \E p \in Procs :
        /\ Returned(p)
        /\ fr[p].step = 0
        /\ caller[p] >= 3
        /\ dec[p].prefixSharing
        /\ dec[p].initSeqLen = fr[p].seqLen
        /\ dec[p].accSeqLen = fr[p].seqLen

\* C9: the accumulated sequence length never exceeds the cache capacity
C9_WithinCapacity ==
    \A p \in Procs : dec[p].accSeqLen <= MaxPositions

\* C10: without attention/MLP parallelism the local layers run in ascending
\* order, each as attention, reduce-add of the attention output, FFN on the
\* reduced attention output, reduce-add of the FFN output into embBuf (the
\* reduce-adds being calls only in a row of more than one rank)
OrderLog(p) == SelectSeq(fr[p].log, IsOrderEv)

Shape(e) == <<e.ev, e.what, e.layer, e.partial>>

LayerPattern(p, g) ==
    IF tp_size(p) > 1
    THEN << <<"forwardAttention", "embBuf", g, FALSE>>,
            <<"reduceAdd", "attnOut", g, TRUE>>,
            <<"reduceDone", "attnOut", g, FALSE>>,
            <<"forwardFFN", "attnOut", g, FALSE>>,
            <<"reduceAdd", "outBuf", g, TRUE>>,
            <<"reduceDone", "outBuf", g, FALSE>> >>
    ELSE << <<"forwardAttention", "embBuf", g, FALSE>>,
            <<"forwardFFN", "attnOut", g, FALSE>> >>

ExpectedOrder(p) ==
    LET n == Len(LayerPattern(p, 0)) IN
    [k \in 1 .. (n * layers_per_pp_stage) |->
        LayerPattern(p, start_layer(p) + ((k - 1) \div n))[((k - 1) % n) + 1]]

OwnLayers(p) == [k \in 1 .. layers_per_pp_stage |-> start_layer(p) + k - 1]

C10_LayerOrder ==
    ~attnMlpParallel =>
        \A p \in Procs :
            LET have == [k \in 1 .. Len(OrderLog(p)) |-> Shape(OrderLog(p)[k])] IN
            /\ IsPrefix(have, ExpectedOrder(p))
            /\ PastLoop(p) =>
                 /\ have = ExpectedOrder(p)
                 /\ Len(fr[p].embBuf.layers) >= layers_per_pp_stage
                 /\ SubSeq(fr[p].embBuf.layers,
                           Len(fr[p].embBuf.layers) - layers_per_pp_stage + 1,
                           Len(fr[p].embBuf.layers)) = OwnLayers(p)

C10_Witness ==
    \E p \in Procs :
        /\ ~attnMlpParallel
        /\ tp_size(p) > 1
        /\ layers_per_pp_stage >= 2
        /\ Returned(p)
        /\ Len(OrderLog(p)) = 6 * layers_per_pp_stage

\* C11: with attention and MLP in parallel no reduce-add follows attention,
\* the FFN of a layer reads embBuf as it entered the layer (the layers below
\* applied, this layer's attention output not added), and a row of more than
\* one rank issues exactly one reduce-add per layer, that of the FFN output
ParallelPattern(p, g) ==
    IF tp_size(p) > 1
    THEN << <<"forwardAttention", "embBuf", g, FALSE>>,
            <<"forwardFFN", "embBuf", g, FALSE>>,
            <<"reduceAdd", "outBuf", g, TRUE>>,
            <<"reduceDone", "outBuf", g, FALSE>> >>
    ELSE << <<"forwardAttention", "embBuf", g, FALSE>>,
            <<"forwardFFN", "embBuf", g, FALSE>> >>

ExpectedParallel(p) ==
    LET n == Len(ParallelPattern(p, 0)) IN
    [k \in 1 .. (n * layers_per_pp_stage) |->
        ParallelPattern(p, start_layer(p) + ((k - 1) \div n))[((k - 1) % n) + 1]]

ReduceAddsOf(p, g) ==
    {k \in 1 .. Len(fr[p].log) : fr[p].log[k].ev = "reduceAdd" /\ fr[p].log[k].layer = g}

C11_ParallelMode ==
    attnMlpParallel =>
        \A p \in Procs :
            LET have == [k \in 1 .. Len(OrderLog(p)) |-> Shape(OrderLog(p)[k])] IN
            /\ IsPrefix(have, ExpectedParallel(p))
            /\ PastLoop(p) => have = ExpectedParallel(p)
            /\ \A k \in 1 .. Len(fr[p].log) :
                   LET e == fr[p].log[k] IN
                   /\ e.ev = "reduceAdd" => e.what = "outBuf"
                   /\ e.ev = "forwardFFN" =>
                          /\ e.what = "embBuf"
                          /\ e.count = Len(fr[p].firstIn.layers) + (e.layer - start_layer(p))
            /\ (tp_size(p) > 1 /\ PastLoop(p)) =>
                   \A j \in 1 .. layers_per_pp_stage :
                       Cardinality(ReduceAddsOf(p, OwnLayers(p)[j])) = 1

C11_Witness ==
    \E p \in Procs :
        /\ attnMlpParallel
        /\ tp_size(p) > 1
        /\ layers_per_pp_stage >= 2
        /\ Returned(p)
        /\ fr[p].step = 1
        /\ Len(OrderLog(p)) = 4 * layers_per_pp_stage

\* C12: in a call with step = 0 and beamSize > 1 expandCache runs exactly once
\* for each local layer, after that layer's attention and before its FFN; in
\* a call with step > 0 or beamSize = 1 it never runs
EvPos(p, name, g) ==
    {k \in 1 .. Len(fr[p].log) : fr[p].log[k].ev = name /\ fr[p].log[k].layer = g}

C12_ExpandCacheOncePerLayer ==
    \A p \in Procs :
        /\ (fr[p].step = 0 /\ fr[p].beamSize > 1) =>
              \A j \in 1 .. layers_per_pp_stage :
                  LET g == OwnLayers(p)[j] IN
                  /\ Cardinality(EvPos(p, "expandCache", g)) <= 1
                  /\ EvPos(p, "forwardAttention", g) # {} =>
                         /\ Cardinality(EvPos(p, "expandCache", g)) = 1
                         /\ \A a \in EvPos(p, "forwardAttention", g),
                               x \in EvPos(p, "expandCache", g) : a < x
                  /\ \A x \in EvPos(p, "expandCache", g),
                        m \in EvPos(p, "forwardFFN", g) : x < m
        /\ (fr[p].step > 0 \/ fr[p].beamSize = 1) => ~HasEv(p, "expandCache")
        /\ \A k \in 1 .. Len(fr[p].log) :
               fr[p].log[k].ev = "expandCache" =>
                   \E j \in 1 .. layers_per_pp_stage : fr[p].log[k].layer = OwnLayers(p)[j]

C12_Witness ==
    \E p \in Procs :
        /\ fr[p].step = 0
        /\ fr[p].beamSize > 1
        /\ layers_per_pp_stage >= 2
        /\ Returned(p)
        /\ \A j \in 1 .. layers_per_pp_stage :
               Cardinality(EvPos(p, "expandCache", OwnLayers(p)[j])) = 1

\* C14: on the last stage at step 0 with beamSize > 1 and logitsAll false, row
\* b*beamSize + k of the returned logits is the row the projection produced
\* for user b, for every user b and beam k, and each iteration of the
\* expansion reads a source row that still holds the projection's output
SourcesIntact(f) ==
    LET order == LogitsLoopOrder(f.userSideBS) IN
    \A n \in 1 .. f.userSideBS :
        ExpandedAfter(PredictorOut(f), order, f.beamSize, n - 1)[order[n] + 1]
            = PredictorOut(f)[order[n] + 1]

C14_LogitsExpanded ==
    \A p \in Procs :
        (Returned(p) /\ IsLastStage(p) /\ fr[p].step = 0 /\ fr[p].beamSize > 1
           /\ ~fr[p].logitsAll) =>
            /\ Len(fr[p].finalOut) = fr[p].userSideBS * fr[p].beamSize
            /\ \A b \in 0 .. (fr[p].userSideBS - 1), k \in 0 .. (fr[p].beamSize - 1) :
                   fr[p].finalOut[b * fr[p].beamSize + k + 1] = PredictorOut(fr[p])[b + 1]
            /\ \A b \in 0 .. (fr[p].userSideBS - 1) : PredictorOut(fr[p])[b + 1] = b
            /\ SourcesIntact(fr[p])

C14_Witness ==
    \E p \in Procs :
        /\ Returned(p) /\ IsLastStage(p)
        /\ fr[p].step = 0
        /\ fr[p].userSideBS > 1 /\ fr[p].beamSize > 1
        /\ ~fr[p].logitsAll
        /\ fr[p].finalOut[Len(fr[p].finalOut)] = fr[p].userSideBS - 1

\* the stages whose decoders include global layer g
Owners(g) ==
    {pp_rank(p) : p \in {q \in Procs : \E j \in 1 .. layers_per_pp_stage : OwnLayers(q)[j] = g}}

AllLayers == 0 .. (NumLayers - 1)

\* C17: every layer of the model is owned by exactly one pipeline stage
C17_EveryLayerOwnedOnce ==
    \A g \in AllLayers : Cardinality(Owners(g)) = 1

\* C18: when totalLayers is divisible by ppSize every stage owns
\* totalLayers/ppSize layers, stage r the range [r*totalLayers/ppSize,
\* (r+1)*totalLayers/ppSize), and the ranges tile [0, totalLayers)
C18_EvenPartition ==
    (NumLayers % pp_size = 0) =>
        /\ \A p \in Procs :
              /\ Len(OwnLayers(p)) = NumLayers \div pp_size
              /\ \A g \in AllLayers :
                     (\E j \in 1 .. Len(OwnLayers(p)) : OwnLayers(p)[j] = g)
                       <=> /\ (pp_rank(p) * NumLayers) \div pp_size <= g
                           /\ g < ((pp_rank(p) + 1) * NumLayers) \div pp_size
              /\ PastLoop(p) =>
                     SubSeq(fr[p].embBuf.layers,
                            Len(fr[p].embBuf.layers) - Len(OwnLayers(p)) + 1,
                            Len(fr[p].embBuf.layers)) = OwnLayers(p)
        /\ \A g \in AllLayers : Cardinality(Owners(g)) = 1
        /\ \A p \in Procs : ~dec[p].warned

C18_Witness ==
    \E p \in Procs :
        /\ NumLayers % pp_size = 0
        /\ pp_size > 1
        /\ IsLastStage(p) /\ Returned(p)
        /\ fr[p].embBuf.layers = FirstLayers(NumLayers)

\* C19: when totalLayers is not divisible by ppSize the constructor has
\* warned and the process goes on: every stage owns floor(totalLayers/ppSize)
\* layers from ppRank*floor(totalLayers/ppSize), no layer has two owners, and
\* totalLayers mod ppSize layers have none
C19_UnevenPartition ==
    (NumLayers % pp_size # 0) =>
        /\ \A p \in Procs :
              /\ dec[p].warned
              /\ OwnLayers(p) = [k \in 1 .. (NumLayers \div pp_size) |->
                                    pp_rank(p) * (NumLayers \div pp_size) + k - 1]
              /\ PastLoop(p) =>
                     /\ Len(fr[p].embBuf.layers) >= NumLayers \div pp_size
                     /\ SubSeq(fr[p].embBuf.layers,
                               Len(fr[p].embBuf.layers) - (NumLayers \div pp_size) + 1,
                               Len(fr[p].embBuf.layers)) = OwnLayers(p)
        /\ \A g \in AllLayers : Cardinality(Owners(g)) <= 1
        /\ Cardinality({g \in AllLayers : Owners(g) = {}}) = NumLayers % pp_size

C19_Witness ==
    \E p \in Procs :
        /\ NumLayers % pp_size # 0
        /\ layers_per_pp_stage > 0
        /\ dec[p].warned
        /\ IsLastStage(p) /\ Returned(p)
        /\ fr[p].ret[1] = "finalOut"
        /\ Len(fr[p].embBuf.layers) < NumLayers

\* C20: when the stage count divides the world size, every process has
\* 0 <= ppRank < ppSize and 0 <= tpRank < tpSize, every TP group has W/P
\* members, and two ranks share a TP group exactly when they share ppRank
CoordinatesInRange ==
    /\ \A p \in Procs :
          /\ 0 <= pp_rank(p) /\ pp_rank(p) < pp_size
          /\ 0 <= tp_rank(p) /\ tp_rank(p) < tp_size(p)
    /\ \A p, q \in Procs : (q \in Row(p)) <=> (pp_rank(p) = pp_rank(q))

C20_CoordinatesWhenDivisible ==
    (world_size % pipeline = 0) =>
        /\ CoordinatesInRange
        /\ \A p \in Procs : tp_size(p) = world_size \div pipeline
        /\ \A p, q \in Procs : (p # q /\ pp_rank(p) = pp_rank(q)) => tp_rank(p) # tp_rank(q)

C20_Witness ==
    \E p, q \in Procs :
        /\ world_size % pipeline = 0
        /\ pp_size > 1 /\ tp_size(p) > 1
        /\ pp_rank(p) = pp_size - 1
        /\ q \in Row(p) /\ tp_rank(q) = tp_size(p) - 1 /\ tp_rank(p) = 0
        /\ fr[p].step = 0 /\ fr[q].step = 0

\* C20 as stated: for every W, R and P
C20_CoordinatesInRange == CoordinatesInRange

\* the content of two caches of a layer is the same
SameContent(c1, c2) ==
    \A x \in (DOMAIN c1) \cup (DOMAIN c2) : At(c1, x[1], x[2]) = At(c2, x[1], x[2])

\* C13: the attention step of a call with step = 0 and beamSize = B > 1
\* leaves, for every user b of the N users and every k in [0, B), row b*B + k
\* of the layer's cache equal to row b as it was before expandCache, over the
\* seqLen time-steps of the prompt
C13_ExpandCacheCopies ==
    [][\A p \in Procs :
          (Attn(p) /\ fr[p].step = 0 /\ fr[p].beamSize > 1) =>
              \A b \in 0 .. (fr[p].userSideBS - 1), k \in 0 .. (fr[p].beamSize - 1),
                 t \in 0 .. (fr[p].seqLen - 1) :
                  At(dec'[p].kvCache[fr[p].i + 1], b * fr[p].beamSize + k, t)
                      = At(PreExpansion(p), b, t)]_vars

C13_Witness ==
    \E p \in Procs :
        /\ fr[p].step = 0 /\ Returned(p)
        /\ fr[p].userSideBS > 1 /\ fr[p].beamSize > 1
        /\ dec[p].prefixSharing
        /\ fr[p].seqLen > dec[p].prefixSeqLen
        /\ At(dec[p].kvCache[1], fr[p].userSideBS * fr[p].beamSize - 1, fr[p].seqLen - 1)
              = fr[p].userSideBS - 1
        /\ At(dec[p].kvCache[1], fr[p].userSideBS * fr[p].beamSize - 1, 0) = SharedPrefix

\* C15: reorderCache(idx, size) changes no cell of any layer at a time-step
\* outside [initSeqLen, accSeqLen), the session's current values, and no row
\* outside [0, size); inside, row r takes what row idx[r] held
C15_ReorderFrame ==
    [][\A p \in Procs : \A idx \in Idxs(job.userSideBS * job.beamSize) :
          ReorderCache(p, idx) =>
              \A l \in 1 .. NumLayers :
                  LET old == dec[p].kvCache[l] new == dec'[p].kvCache[l] IN
                  \A x \in (DOMAIN old) \cup (DOMAIN new) :
                      IF x[2] >= dec[p].initSeqLen /\ x[2] < dec[p].accSeqLen
                         /\ x[1] < Len(idx)
                      THEN At(new, x[1], x[2]) = At(old, idx[x[1] + 1], x[2])
                      ELSE At(new, x[1], x[2]) = At(old, x[1], x[2])]_vars

\* a reorder that moved rows has happened: the prompt part still differs
\* between the users, the generated part holds another row's content
C15_Witness ==
    \E p \in Procs :
        /\ fr[p].pc = "idle"
        /\ hist[p].reorders # <<>>
        /\ hist[p].reorders[1] = Rotation(job.userSideBS * job.beamSize)
        /\ job.userSideBS > 1
        /\ dec[p].initSeqLen > 0 /\ dec[p].accSeqLen > dec[p].initSeqLen
        /\ At(dec[p].kvCache[1], 0, 0) = 0
        /\ At(dec[p].kvCache[1], job.userSideBS * job.beamSize - 1, 0) = job.userSideBS - 1
        /\ At(dec[p].kvCache[1], 0, dec[p].initSeqLen) = 1

\* C16: reorderCache with idx[i] = i leaves the cache of every layer unchanged
C16_IdentityReorder ==
    [][\A p \in Procs :
          ReorderCache(p, Identity(job.userSideBS * job.beamSize)) =>
              \A l \in 1 .. NumLayers : SameContent(dec'[p].kvCache[l], dec[p].kvCache[l])]_vars

C16_Witness ==
    \E p \in Procs :
        /\ fr[p].pc = "idle"
        /\ hist[p].reorders = <<Identity(job.userSideBS * job.beamSize)>>
        /\ job.userSideBS * job.beamSize > 1
        /\ dec[p].accSeqLen > dec[p].initSeqLen
        /\ At(dec[p].kvCache[1], 0, dec[p].initSeqLen) = 0
        /\ At(dec[p].kvCache[1], 1, dec[p].initSeqLen) = 1

\* ------------------------------------------------------- block layout
\* the world ranks of stage j when every stage has t processes
Block(j, t) == {q \in Procs : j * t <= q /\ q < (j + 1) * t}

\* the TP groups (rows) of the job
Rows == {Row(q) : q \in Procs}

\* C21: when the stage count divides the world size W, every process has
\* tpSize = W/P and ppRank = R / (W/P); stage j is exactly the contiguous
\* ranks [j*W/P, (j+1)*W/P), there are exactly P TP groups, and tpRank is
\* the rank's offset inside its block.
C21_BlockLayout ==
    world_size % pipeline = 0 =>
        LET t == world_size \div pipeline
        IN /\ \A p \in Procs :
                /\ tp_size(p) = t
                /\ pp_rank(p) = p \div t
                /\ tp_rank(p) = p - pp_rank(p) * t
                /\ Row(p) = Block(pp_rank(p), t)
           /\ \A j \in 0 .. (pp_size - 1) :
                {q \in Procs : pp_rank(q) = j} = Block(j, t)
           /\ Cardinality(Rows) = pipeline
           /\ Rows = {Block(j, t) : j \in 0 .. (pp_size - 1)}

\* a job of 4 processes in 2 stages of 2 whose last process ran its call
C21_Witness ==
    /\ world_size = 4
    /\ pipeline = 2
    /\ tp_size(3) = 2
    /\ pp_rank(3) = 1
    /\ tp_rank(3) = 1
    /\ caller[3] > 0

\* ------------------------------------------------ the activation buffer
\* elements of the output region (outBuf = embBuf + batchSize * inputSeqLen *
\* hiddenSize) one logged operation of a call touches
OutRegionUse(p, e) ==
    IF e.ev = "reduceAdd" /\ e.what = "outBuf" THEN e.count
    ELSE IF e.ev = "copyLastRows" THEN e.count * HiddenSize
    ELSE IF e.ev \in {"predictor", "expandLogits"} THEN e.count * SplitSize(p)
    ELSE 0

\* elements of actBuffers the call of process p has addressed so far: the
\* embedding region and, right after it, the used part of the output region
Addressed(p) ==
    IF fr[p].step < 0 THEN 0
    ELSE LET log == fr[p].log
             uses == {OutRegionUse(p, log[k]) : k \in 1 .. Len(log)}
             most == IF uses = {} THEN 0 ELSE CHOOSE u \in uses : \A v \in uses : v <= u
         IN ActCount(fr[p]) + most

\* C22: at every forward call of a session the capacity of the activation
\* buffer is at least the number of elements the call addresses in it (the
\* embedding region plus the output region with the FFN output and logits).
C22_ActBufferHoldsCall ==
    \A p \in Procs : Addressed(p) <= dec[p].actCap

\* -------------------------------------------------- the attention mask
\* the steps in which process p runs prepareBuffers, hence getAttnMask
Prepares(p) ==
    \/ Entering(p) /\ fr'[p].step = 0
    \/ \E n \in 1 .. MaxSeqLen : PrefixForward(p, n) \/ SetPrefix(p, n)

\* the size prepareBuffers passes to getAttnMask in such a step
Requested(p) == dec'[p].ctxBatchSize * dec'[p].ctxInputSeqLen * dec'[p].ctxInputSeqLen

\* the capacity actBuffers->Resize leaves in such a step
ActCapAfter(p) ==
    LET logitsLen == IF Entering(p) THEN fr'[p].userSideBS * fr'[p].beamSize ELSE 1
        actRows == dec'[p].ctxBatchSize * dec'[p].ctxInputSeqLen
    IN MatrixResize(dec[p].actCap, actRows + OutRows(actRows, logitsLen), HiddenSize)

\* C23: the attention mask is grow-only: maskSize never decreases, it changes
\* only when the requested size is strictly greater and then becomes that
\* size, after getAttnMask(n) it is at least n, and the capacity of the
\* activation buffer is what its own resize gives, whatever the mask does.
C23_MaskGrowOnly ==
    [][\A p \in Procs :
          /\ dec'[p].maskSize >= dec[p].maskSize
          /\ Prepares(p) =>
                 /\ dec'[p].maskSize >= Requested(p)
                 /\ (dec'[p].maskSize # dec[p].maskSize) <=> (Requested(p) > dec[p].maskSize)
                 /\ (dec'[p].maskSize # dec[p].maskSize) => dec'[p].maskSize = Requested(p)
                 /\ dec'[p].actCap = ActCapAfter(p)
          /\ ~Prepares(p) =>
                 /\ dec'[p].maskSize = dec[p].maskSize
                 /\ dec'[p].actCap = dec[p].actCap]_vars

\* a second step-0 call asked for less than the mask already holds
C23_Witness ==
    \E p \in Procs :
        /\ InCall(p)
        /\ fr[p].step = 0
        /\ caller[p] >= 2
        /\ dec[p].maskSize > dec[p].ctxBatchSize * dec[p].ctxInputSeqLen * dec[p].ctxInputSeqLen
        /\ dec[p].maskSize = MaxBatch * MaxSeqLen * MaxSeqLen

\* ------------------------------------------------ prefix sharing, step 0
\* C24: a step-0 call in prefix-sharing mode processes inputSeqLen = seqLen -
\* prefixSeqLen new tokens per sequence with pastSeqLen = prefixSeqLen, and the
\* new-token ids of sequence b are the positions [prefixSeqLen, seqLen) of
\* that sequence's input row.
C24_PrefixStepZeroInput ==
    \A p \in Procs :
        (InCall(p) /\ fr[p].step = 0 /\ dec[p].prefixSharing) =>
            LET f == fr[p] n == dec[p].prefixSeqLen IN
            /\ f.inputSeqLen = f.seqLen - n
            /\ f.pastSeqLen = n
            /\ Len(f.ids) = f.userSideBS * f.inputSeqLen
            /\ \A b \in 0 .. (f.userSideBS - 1) :
                   SubSeq(f.ids, b * f.inputSeqLen + 1, (b + 1) * f.inputSeqLen)
                       = [j \in 1 .. (f.seqLen - n) |-> <<b, n + j - 1>>]

\* two sequences with a shared prefix of one token and a prompt of two
C24_Witness ==
    \E p \in Procs :
        /\ InCall(p) /\ fr[p].step = 0 /\ dec[p].prefixSharing
        /\ dec[p].prefixSeqLen = 1
        /\ fr[p].seqLen = 2
        /\ fr[p].userSideBS = 2
        /\ fr[p].ids = << <<0, 1>>, <<1, 1>> >>

\* C25: during a forward call expandPrefixCache(i, userSideBS, prefixSeqLen)
\* runs for local layer i exactly once if and only if step = 0 and prefix
\* sharing is active, before the layer's attention processes any new token;
\* at step > 0 or without prefix sharing it never runs.
C25_ExpandPrefixOncePerLayer ==
    \A p \in Procs :
        InCall(p) =>
            LET f == fr[p] d == dec[p] IN
            /\ (f.step = 0 /\ d.prefixSharing) =>
                  \A j \in 1 .. layers_per_pp_stage :
                      LET g == OwnLayers(p)[j]
                          x == EvPos(p, "expandPrefixCache", g)
                          a == EvPos(p, "forwardAttention", g)
                      IN /\ Cardinality(x) <= 1
                         /\ \A k \in x : f.log[k].count = d.prefixSeqLen
                         /\ (a # {} \/ PastLoop(p)) =>
                                /\ Cardinality(x) = 1
                                /\ \A k \in x, m \in a : k < m
            /\ (f.step > 0 \/ ~d.prefixSharing) => ~HasEv(p, "expandPrefixCache")
            /\ \A k \in 1 .. Len(f.log) :
                   f.log[k].ev = "expandPrefixCache" =>
                       \E j \in 1 .. layers_per_pp_stage : f.log[k].layer = OwnLayers(p)[j]

\* a step-0 call of a prefix-sharing session that has run all its layers
C25_Witness ==
    \E p \in Procs :
        /\ InCall(p) /\ PastLoop(p)
        /\ fr[p].step = 0
        /\ dec[p].prefixSharing
        /\ layers_per_pp_stage >= 2
        /\ \A j \in 1 .. layers_per_pp_stage :
               Cardinality(EvPos(p, "expandPrefixCache", OwnLayers(p)[j])) = 1

\* -------------------------------------------------- final normalization
EvCounts(p, name) ==
    {fr[p].log[k].count : k \in {j \in 1 .. Len(fr[p].log) : fr[p].log[j].ev = name}}

\* C26: on the last stage with logitsAll off and inputSeqLen >= 1, exactly
\* batchSize rows enter the final normalization and the projection, row b
\* being activation row (b+1)*inputSeqLen - 1, the last input token of
\* sequence b; a copy is made only when inputSeqLen > 1.
C26_LastTokenRows ==
    \A p \in Procs :
        (Returned(p) /\ IsLastStage(p) /\ ~fr[p].logitsAll /\ fr[p].inputSeqLen >= 1) =>
            LET f == fr[p] IN
            /\ Len(f.lnIn) = f.batchSize
            /\ EvCounts(p, "lastLayerNormForward") = {f.batchSize}
            /\ EvCounts(p, "predictor") = {f.batchSize}
            /\ \A b \in 0 .. (f.batchSize - 1) :
                   /\ f.lnIn[b + 1] = (b + 1) * f.inputSeqLen - 1
                   /\ f.ids[f.lnIn[b + 1] + 1] = <<b, f.seqLen - 1>>
            /\ HasEv(p, "copyLastRows") <=> f.inputSeqLen > 1

\* a returned call with two sequences of two new tokens each
C26_Witness ==
    \E p \in Procs :
        /\ Returned(p) /\ IsLastStage(p)
        /\ fr[p].inputSeqLen = 2
        /\ fr[p].batchSize >= 2
        /\ fr[p].lnIn[2] = 3
        /\ HasEv(p, "copyLastRows")

\* ------------------------------------------------- the execution context
\* C27: when getDecoderContext runs while a context exists, it returns the
\* existing context unchanged if hiddenSize, attHeadNum, kvHeadNum,
\* intermediateSize and splitIdx are all equal and ends the process
\* otherwise; an existing context is never replaced.
C27_ExistingContextKept ==
    [][\A a \in Shapes :
          (GetDecoderContext(a) /\ ctor.context # NoContext) =>
              LET c == ctor.context IN
              /\ ctor'.context = c
              /\ IF /\ c.hiddenSize = a.hiddenSize
                    /\ c.attHeadNum = a.attHeadNum
                    /\ c.kvHeadNum = a.kvHeadNum
                    /\ c.intermediateSize = a.intermediateSize
                    /\ c.splitIdx = tp_rank(0)
                 THEN ctor'.exit = "no" /\ ctor'.ret = "existing"
                 ELSE ctor'.exit = "context"]_vars

\* the process ended on a context of another size; the context is still the
\* one that existed
C27_Witness ==
    /\ ctor.exit = "context"
    /\ ctor.context # NoContext
    /\ ctor.context.splitIdx = 0

\* ---------------------------------------------------- the optional files
\* the entries of params that carry the bias read from an optional file
BiasEntries ==
    [f \in OptionalSet |->
        IF f = "qkvBias" THEN {2, 4, 6}
        ELSE IF f = "attnOutBias" THEN {8}
        ELSE IF f = "ln1Beta" THEN {10}
        ELSE IF f = "fc1Bias" THEN {12}
        ELSE IF f = "fc2Bias" THEN {14}
        ELSE {16}]

Loaded == ctor.rets # NoRets

\* C28: an absent optional bias file is no error and construction goes on,
\* every bias parameter handed to setWeights for that tensor is the null
\* pointer, the key and value bias entries included; a partially read
\* optional file ends the process.
C28_AbsentBiasIsNull ==
    Loaded =>
        /\ (ctor.exit = "weights") <=>
               (\E f \in OptionalSet : ctor.rets[f] # 0 /\ ctor.rets[f] # FileSize)
        /\ ctor.exit # "weights" =>
               \A f \in OptionalSet :
                   ctor.rets[f] = 0 => \A k \in BiasEntries[f] : ctor.params[k] = Nullptr

\* ----------------------------------------------------- the activation type
\* the call of LlamaMLP::setWeights among the steps of the model
IsMlpSetWeights ==
    \E w \in WeightSets, normW \in {Nullptr, Buffer("normW")} : LlamaMLPSetWeights(w, normW)

\* C29: LlamaMLP::setWeights with an activation other than SILU fails on the
\* check of the activation before any weight is converted, packed or stored:
\* the weight state of the MLP is not modified.
C29_UnsupportedActivation ==
    [][(IsMlpSetWeights /\ ctor.context.act # "silu") =>
           /\ ctor'.exit = "activation"
           /\ ctor'.mlp = ctor.mlp]_vars

\* the call failed on an MLP that held weights from an earlier call
C29_Witness ==
    /\ ctor.exit = "activation"
    /\ ctor.context.act = "gelu"
    /\ \A f \in MlpFields : ctor.mlp[f] = "a"

\* ----------------------------------------------------------- skipFirstStep
\* C30: after skipFirstStep(n) initSeqLen = accSeqLen = n, and the calls with
\* step > 0 and lengths s_1..s_k that follow use pastSeqLen = n for the first
\* of them (the sum of what came before for each) and end with accSeqLen =
\* n + s_1 + ... + s_k, as after a step-0 call of length n.
C30_SkipFirstStepAligns ==
    \A p \in Procs :
        hist[p].skipped =>
            LET lens == hist[p].lens IN
            /\ dec[p].initSeqLen = lens[1]
            /\ dec[p].accSeqLen = SumSeq(lens)
            /\ Len(lens) >= 2 =>
                   /\ fr[p].step > 0
                   /\ fr[p].seqLen = lens[Len(lens)]
                   /\ fr[p].pastSeqLen = SumSeq(SubSeq(lens, 1, Len(lens) - 1))
                   /\ fr[p].inputSeqLen = fr[p].seqLen

\* skipFirstStep and two calls with step > 0 after it
C30_Witness ==
    \E p \in Procs :
        /\ hist[p].skipped
        /\ Len(hist[p].lens) = 3
        /\ Returned(p)
        /\ fr[p].pastSeqLen = hist[p].lens[1] + hist[p].lens[2]
        /\ dec[p].accSeqLen = hist[p].lens[1] + hist[p].lens[2] + hist[p].lens[3]

\* the frame of process p is a prefixForward call that has run forwardAttention
PrefixWrites(p) == fr[p].prefix /\ HasEv(p, "forwardAttention")

\* C31: whenever prefixForward writes seqLen time-steps into the dedicated
\* prefix cache, the capacity of that cache is at least seqLen, through
\* setPrefix and on a direct call
C31_PrefixCacheHoldsPrefix ==
    \A p \in Procs : PrefixWrites(p) => fr[p].inputSeqLen <= dec[p].prefixCap

\* a prefixForward call that has not returned
InPrefix(f) == f.prefix /\ f.pc # "idle"

\* C32: prefixForward neither receives nor sends on the pipeline on any stage,
\* runs its layers with the per-layer pattern of forward, and leaves
\* initSeqLen and accSeqLen as they were
C32_PrefixForwardLocal ==
    [][\A p \in Procs :
          /\ (InPrefix(fr[p]) \/ InPrefix(fr'[p])) =>
                /\ dec'[p].initSeqLen = dec[p].initSeqLen
                /\ dec'[p].accSeqLen = dec[p].accSeqLen
                /\ net' = net \/ \E q \in Procs \ {p} : fr'[q] # fr[q]
          /\ InPrefix(fr'[p]) =>
                /\ fr'[p].pc \notin {"recv", "sendWait"}
                /\ ~\E k \in 1 .. Len(fr'[p].log) : fr'[p].log[k].ev \in {"MPI_Send", "MPI_Recv"}
                /\ fr'[p].pc = "tail" =>
                      [k \in 1 .. Len(SelectSeq(fr'[p].log, IsOrderEv)) |->
                           Shape(SelectSeq(fr'[p].log, IsOrderEv)[k])] =
                      (IF attnMlpParallel THEN ExpectedParallel(p) ELSE ExpectedOrder(p))]_vars

C32_Witness ==
    \E p \in Procs :
        /\ pp_rank(p) > 0
        /\ fr[p].prefix
        /\ fr[p].pc = "tail"
        /\ net # <<>>

\* C33: when a forward call has returned, on any return path, every temporary
\* array it allocated has been freed
C33_TemporariesReleased ==
    \A p \in Procs : Returned(p) => fr[p].heap = {}

\* C34: a step-0 call in prefix-sharing mode that has reached the embedding
\* has at least one new token per sequence
C34_PositiveNewTokens ==
    \A p \in Procs :
        (~fr[p].prefix /\ fr[p].step = 0 /\ dec[p].prefixSharing /\ fr[p].pc # "idle")
            => fr[p].inputSeqLen >= 1

\* C35: the pastSeqLen of a forward call plus its inputSeqLen equals accSeqLen
\* from the embedding of the call to its return, for any step, with or
\* without prefix sharing
C35_AppendPositionMatchesAcc ==
    [][\A p \in Procs :
          /\ Entering(p) /\ ~fr'[p].prefix =>
                fr'[p].pastSeqLen + fr'[p].inputSeqLen = dec'[p].accSeqLen
          /\ InCall(p) /\ ~fr[p].prefix =>
                /\ dec'[p].accSeqLen = dec[p].accSeqLen
                /\ fr'[p].pastSeqLen = fr[p].pastSeqLen
                /\ fr'[p].inputSeqLen = fr[p].inputSeqLen]_vars

C35_Witness ==
    \E p \in Procs :
        /\ Returned(p)
        /\ fr[p].step = 0
        /\ dec[p].prefixSharing
        /\ fr[p].pastSeqLen > 0
        /\ fr[p].inputSeqLen > 0
        /\ fr[p].pastSeqLen + fr[p].inputSeqLen = dec[p].accSeqLen

\* C36: between calls, after any sequence of forward, prefixForward,
\* setPrefix, unsetPrefix, skipFirstStep and reorderCache calls,
\* 0 <= initSeqLen <= accSeqLen
C36_ReorderRangeWellFormed ==
    \A p \in Procs :
        ~InCall(p) => (0 <= dec[p].initSeqLen /\ dec[p].initSeqLen <= dec[p].accSeqLen)

C36_Witness ==
    \E p \in Procs :
        /\ ~InCall(p)
        /\ dec[p].prefixSharing
        /\ fr[p].step = 0
        /\ hist[p].reorders # <<>>
        /\ dec[p].initSeqLen > 0
        /\ dec[p].initSeqLen = dec[p].accSeqLen

\* the row counts of the logged calls of one function in the call of process p
RowsGiven(p, name) ==
    {fr[p].log[k].count : k \in {j \in 1 .. Len(fr[p].log) : fr[p].log[j].ev = name}}

\* C37: a last-stage call with logitsAll gives the final normalization and the
\* projection as many rows as the call computed, batchSize * inputSeqLen,
\* also at step 0 with prefix sharing
C37_LogitsAllRows ==
    \A p \in Procs :
        (Returned(p) /\ IsLastStage(p) /\ fr[p].logitsAll) =>
            /\ RowsGiven(p, "lastLayerNormForward") = {fr[p].batchSize * fr[p].inputSeqLen}
            /\ RowsGiven(p, "predictor") = {fr[p].batchSize * fr[p].inputSeqLen}

\* rank p has run LlamaMLP::forward to its end
MlpDone(p) == ctor[p].ran # <<>> /\ ctor[p].exit = "no"

\* the number of times the forward of rank p added the residual
ResidualAdds(p) ==
    Cardinality({k \in 1 .. Len(ctor[p].ran) : ctor[p].ran[k].residual})

\* C38: when the ranks of a TP group have run LlamaMLP::forward, the rank with
\* splitIdx 0 has added the residual once and no other rank has added it, fused
\* or not
C38_ResidualOnce ==
    \A R \in Procs :
        (\A q \in Row(R) : MlpDone(q)) =>
            /\ \A q \in Row(R) : ResidualAdds(q) = (IF ctor[q].context.splitIdx = 0 THEN 1 ELSE 0)
            /\ Cardinality({q \in Row(R) : ResidualAdds(q) = 1}) = 1

C38_Witness ==
    \E R \in Procs :
        /\ RowSize(R) >= 3
        /\ job.enableCATMLP
        /\ \A q \in Row(R) : MlpDone(q)
        /\ Cardinality({q \in Row(R) : ResidualAdds(q) = 1}) = 1

\* C39: every assert of gateProj, upProj, catGateUpProj and downProj is true
\* in every forward after setWeights, on the unfused and the fused path, for
\* float and bfloat16 intermediates
C39_ShapeAssertionsHold ==
    \A p \in Procs : \A k \in 1 .. Len(ctor[p].ran) : Holds(ctor[p].ran[k])
====
